-------------------------- MODULE ScopeSplitProofs --------------------------
(***************************************************************************)
(* The collective split of scopes, for every number of ranks, every node   *)
(* and every sequence of calls.                                            *)
(***************************************************************************)
EXTENDS ScopeSplit, HwSplitProofs

-----------------------------------------------------------------------------
(* The inductive invariant. *)

Calling == {"gather", "barrier", "bcast", "recv", "group", "comm_split"}

(* Groups partition the ranks, and a rank that is in a call has made more  *)
(* calls than splits led to its scope.  Until the server has answered, a   *)
(* rank has nothing; afterwards its scope is never empty.                  *)
LocalInv(r) ==
    /\ scope[r].depth <= ncalls[r]
    /\ pc[r] \in Calling => scope[r].depth < ncalls[r]
    /\ scope[r].depth = 0 => Group(r) = make_intrinsic_group(r)
    /\ scope[r].origin = EmptyPool =>
          /\ scope[r].depth = 0 /\ scope[r].hwpool = EmptyPool
          /\ pc[r] \in {"intrinsic", "failed", "aborted"}
    /\ scope[r].origin # EmptyPool => scope[r].hwpool.cpuset # {}
    /\ pc[r] = "intrinsic" => scope[r].origin = EmptyPool /\ ncalls[r] = 0

RankInv(r) ==
    /\ r \in Group(r) /\ Group(r) \subseteq Ranks
    /\ \A m \in Group(r) : Group(m) = Group(r) /\ scope[m].depth = scope[r].depth
    /\ LocalInv(r)

GroupInv == \A r \in Ranks : RankInv(r)

(* How far the members of a group are apart, told by where the root is:    *)
(* before the gather has completed, inside it, after the result was sent.  *)
Done(q) == IF pc[q] = "gather" THEN ncalls[q] - 1 ELSE ncalls[q]
Refused(q) == Done(q) # 0 /\ outbox[q].call = Done(q) /\ outbox[q].result.rc # "SUCCESS"
Opening(q) == pc[q] \in {"intrinsic", "app", "gather"} \/ (pc[q] = "failed" /\ ncalls[q] = 0)
Sent(q) == pc[q] \in {"group", "comm_split"} \/ (pc[q] = "failed" /\ ncalls[q] > 0)

RootInv(q) ==
    /\ pc[q] # "recv"
    /\ outbox[q].call \in 0..ncalls[q]
    /\ pc[q] \in {"gather", "barrier", "bcast", "threw"} => outbox[q].call < ncalls[q]
    /\ Sent(q) => outbox[q].call = ncalls[q] /\ outbox[q].result.rc = "SUCCESS"
    /\ outbox[q].call # 0 => outbox[q].result.rc \in {"SUCCESS", "ERR_SPLIT", "ERR_INVLD_ARG"}

MemberInv(q, m) ==
    /\ Opening(q) =>
          \/ pc[m] \in {"intrinsic", "failed"} /\ ncalls[m] = 0 /\ Done(q) = 0
          \/ pc[m] = "app" /\ ncalls[m] = Done(q)
          \/ pc[m] = "barrier" /\ ncalls[m] = Done(q) + 1
          \/ pc[m] = "recv" /\ ncalls[m] = Done(q) /\ Refused(q)
    /\ pc[q] \in {"barrier", "threw"} => pc[m] = "barrier" /\ ncalls[m] = ncalls[q]
    /\ pc[q] = "bcast" => pc[m] = "recv" /\ ncalls[m] = ncalls[q]
    /\ Sent(q) => pc[m] \in {"recv", "group", "comm_split", "failed"} /\ ncalls[m] = ncalls[q]

(* What a member that is outside of the library was told. *)
Verdict(q) == IF Refused(q) THEN outbox[q].result.rc ELSE "SUCCESS"
VerdictInv(q) == \A m \in Group(q) : pc[m] = "app" => rc[m] = Verdict(q)

(* The arguments of a split, and its result at the root and on its way.    *)
NMembers(q) == Cardinality(Group(q))
BasePool(q) == set_union([m \in Group(q) |-> scope[m].hwpool])
GroupColors(q) == ByRank(q, [m \in Ranks |-> args[m].color])
Primary(q) == m_primary_cpuset_for_split(BasePool(q), args[q].type)

RootHasSplit(q) ==
    \/ hwsplit[q] \in {Returns("ERR_SPLIT"), Returns("ERR_INVLD_ARG")}
    \/ SplitFits(BasePool(q), Primary(q), NMembers(q), GroupColors(q), hwsplit[q])

SentFits(q, result) ==
    /\ result.hwpools \in [0..(NMembers(q) - 1) -> HwPools]
    /\ \/ ColorsFit(Primary(q), NMembers(q), result)
       \/ result.colors \in [0..(NMembers(q) - 1) -> {c \in Colors : c < 0}]
    /\ DevicesFit(BasePool(q), NMembers(q), result)

HasPart(q, m) ==
    /\ colorp[m] = outbox[q].result.colors[group_rank(m)]
    /\ hwpool[m] = outbox[q].result.hwpools[group_rank(m)]

ResultInv(q) ==
    /\ pc[q] \in {"barrier", "bcast"} => RootHasSplit(q)
    /\ Sent(q) =>
          /\ SentFits(q, outbox[q].result)
          /\ \A m \in Group(q) : pc[m] \in {"group", "comm_split", "failed"} => HasPart(q, m)

AtRoot(q) ==
    IsRoot(q) =>
        /\ RootInv(q) /\ VerdictInv(q) /\ ResultInv(q)
        /\ \A m \in Group(q) \ {q} : MemberInv(q, m)

(* The rest: only roots send, the job ends for everyone, everyone is bound *)
(* to something, and the caller's colors are there when they are used.     *)
SideInv ==
    /\ \A m \in Ranks : ~IsRoot(m) => outbox[m].call = 0
    /\ \A m, r \in Ranks : pc[m] = "aborted" => pc[r] = "aborted"
    /\ \A r \in Ranks : bound[r] # {}
    /\ \A r \in Ranks : pc[r] \in Calling => args[r].color \in Colors

TypeInv ==
    /\ TypeOK
    /\ args \in [Ranks -> [npieces : Nat, type : Types \cup {"LAST"},
                           color : Colors \cup {QV_SCOPE_SPLIT_UNDEFINED}]]
    /\ DOMAIN hwsplit = Ranks /\ DOMAIN outbox = Ranks

IInv == TypeInv /\ SideInv /\ GroupInv /\ \A q \in Ranks : AtRoot(q)

-----------------------------------------------------------------------------
(* Groups and their ranks. *)

LEMMA RanksFinite == Ranks \subseteq Nat /\ IsFiniteSet(Ranks) /\ Cardinality(Ranks) = NRanks
<1>1. NRanks \in Nat
  BY SplitAssumption
<1>2. Ranks = Sources(NRanks)
  BY DEF Ranks, Sources
<1>3. IsFiniteSet(Sources(NRanks)) /\ Cardinality(Sources(NRanks)) = NRanks
  BY <1>1, SourcesFinite
<1>. QED
  BY <1>1, <1>2, <1>3 DEF Ranks

(* Every group has one root. *)
LEMMA Roots ==
    ASSUME GroupInv, NEW r \in Ranks
    PROVE  /\ s_root(r) \in Group(r) /\ s_root(r) \in Ranks /\ IsRoot(s_root(r))
           /\ \A m \in Group(r) : s_root(r) <= m
           /\ \A m \in Group(r) : s_root(m) = s_root(r)
           /\ \A m \in Ranks : r \in Group(m) /\ IsRoot(m) => m = s_root(r)
           /\ \A m \in Group(r) : IsRoot(m) <=> m = s_root(r)
<1>1. \A m \in Ranks : /\ m \in Group(m) /\ Group(m) \subseteq Ranks
                       /\ \A n \in Group(m) : Group(n) = Group(m)
  BY DEF GroupInv, RankInv
<1>2. Group(r) \in SUBSET Nat /\ Group(r) # {}
  BY <1>1, RanksFinite
<1>3. \E m \in Group(r) : \A n \in Group(r) : m <= n
  BY <1>2, NatLeast
<1>4. s_root(r) \in Group(r) /\ \A n \in Group(r) : s_root(r) <= n
  <2>. HIDE DEF Group
  <2>. QED
    BY <1>3 DEF s_root
<1>5. \A m \in Ranks : Group(m) = Group(r) => s_root(m) = s_root(r)
  BY DEF s_root
<1>6. s_root(r) \in Ranks
  BY <1>1, <1>4
<1>7. \A m \in Group(r) : s_root(m) = s_root(r)
  BY <1>1, <1>5
<1>8. \A m \in Ranks : r \in Group(m) => m \in Group(r)
  BY <1>1
<1>. QED
  BY <1>1, <1>4, <1>6, <1>7, <1>8 DEF IsRoot

(* The members are numbered from zero, and ByRank lists them in order.     *)
LEMMA Members ==
    ASSUME GroupInv, NEW r \in Ranks
    PROVE  /\ NMembers(r) \in Nat \ {0} /\ NMembers(r) <= NRanks
           /\ \A m \in Group(r) : group_rank(m) \in 0..(NMembers(r) - 1)
           /\ \A m, n \in Group(r) : group_rank(m) = group_rank(n) => m = n
           /\ \A i \in 0..(NMembers(r) - 1) :
                 Member(r, i) \in Group(r) /\ group_rank(Member(r, i)) = i
           /\ group_rank(s_root(r)) = 0
<1>. DEFINE G == Group(r)
            I == 0..(NMembers(r) - 1)
<1>1. /\ r \in G /\ G \subseteq Ranks
      /\ \A m \in G : Group(m) = G
  BY DEF GroupInv, RankInv
<1>2. G \in SUBSET Int /\ IsFiniteSet(G) /\ Cardinality(G) <= NRanks
  <2>1. G \in SUBSET Ranks /\ IsFiniteSet(Ranks) /\ Cardinality(Ranks) = NRanks
    BY <1>1, RanksFinite
  <2>. HIDE DEF G
  <2>2. IsFiniteSet(G) /\ Cardinality(G) <= Cardinality(Ranks)
    BY <2>1, FS_Subset
  <2>3. Ranks \subseteq Nat
    BY RanksFinite
  <2>. QED
    BY <2>1, <2>2, <2>3
<1>3. \A m \in G : group_rank(m) = Rank(G, m)
  BY <1>1 DEF group_rank, Rank
<1>4. NMembers(r) = Cardinality(G)
  BY DEF NMembers
<1>. HIDE DEF G
<1>5. /\ Cardinality(G) \in Nat
      /\ \A x \in G : Rank(G, x) \in 0..(Cardinality(G) - 1)
      /\ \A x, y \in G : x < y <=> Rank(G, x) < Rank(G, y)
      /\ \A i \in 0..(Cardinality(G) - 1) : \E x \in G : Rank(G, x) = i
  BY <1>2, RankEnumerates
<1>6. \A m \in G : group_rank(m) \in I
  BY <1>3, <1>4, <1>5
<1>7. NMembers(r) \in Nat \ {0}
  BY <1>1, <1>4, <1>5, <1>6
<1>8. ASSUME NEW m \in G, NEW n \in G, group_rank(m) = group_rank(n) PROVE m = n
  <2>1. Rank(G, m) = Rank(G, n) /\ Rank(G, m) \in Int
    BY <1>3, <1>5, <1>8
  <2>2. ~(m < n) /\ ~(n < m) /\ m \in Int /\ n \in Int
    BY <1>2, <1>5, <2>1
  <2>. QED
    BY <2>2
<1>9. ASSUME NEW i \in I PROVE Member(r, i) \in G /\ group_rank(Member(r, i)) = i
  <2>1. \E m \in G : group_rank(m) = i
    BY <1>3, <1>4, <1>5
  <2>2. Member(r, i) = CHOOSE m \in G : group_rank(m) = i
    BY DEF Member, G
  <2>. QED
    BY <2>1, <2>2
<1>10. group_rank(s_root(r)) = 0
  <2>1. s_root(r) \in G /\ \A m \in G : s_root(r) <= m
    BY Roots DEF G
  <2>2. PICK z \in G : Rank(G, z) = 0
    BY <1>4, <1>5, <1>7
  <2>3. ~(s_root(r) < z)
    BY <1>5, <2>1, <2>2
  <2>4. s_root(r) <= z /\ s_root(r) \in Int /\ z \in Int
    BY <1>2, <2>1
  <2>5. s_root(r) = z
    BY <2>3, <2>4
  <2>. QED
    BY <1>3, <2>1, <2>2, <2>5
<1>. QED
  BY <1>2, <1>4, <1>6, <1>7, <1>8, <1>9, <1>10 DEF G

-----------------------------------------------------------------------------
(* Steps that leave a group alone. *)

LEMMA GroupFrame ==
    ASSUME GroupInv, NEW q \in Ranks,
           \A m \in Group(q) : scope'[m].members = scope[m].members
    PROVE  /\ Group(q)' = Group(q) /\ NMembers(q)' = NMembers(q)
           /\ \A m \in Group(q) : /\ Group(m)' = Group(m) /\ group_rank(m)' = group_rank(m)
                                  /\ s_root(m)' = s_root(m) /\ (IsRoot(m)' <=> IsRoot(m))
           /\ \A i \in 0..(NMembers(q) - 1) : Member(q, i)' = Member(q, i)
<1>1. q \in Group(q)
  BY DEF GroupInv, RankInv
<1>2. \A m \in Group(q) : Group(m)' = Group(m)
  BY DEF Group
<1>3. Group(q)' = Group(q)
  BY <1>1, <1>2
<1>4. NMembers(q)' = NMembers(q)
  BY <1>3 DEF NMembers
<1>5. ASSUME NEW m \in Group(q) PROVE group_rank(m)' = group_rank(m)
  BY <1>2 DEF group_rank
<1>6. ASSUME NEW m \in Group(q) PROVE s_root(m)' = s_root(m) /\ (IsRoot(m)' <=> IsRoot(m))
  BY <1>2 DEF s_root, IsRoot
<1>7. ASSUME NEW i \in 0..(NMembers(q) - 1) PROVE Member(q, i)' = Member(q, i)
  <2>1. Member(q, i)' = CHOOSE m \in Group(q) : group_rank(m)' = i
    BY <1>3 DEF Member
  <2>2. Member(q, i) = CHOOSE m \in Group(q) : group_rank(m) = i
    BY DEF Member
  <2>. QED
    BY <1>5, <2>1, <2>2
<1>. QED
  BY <1>2, <1>3, <1>4, <1>5, <1>6, <1>7

LEMMA SplitFrame ==
    ASSUME GroupInv, NEW q \in Ranks,
           \A m \in Group(q) : /\ scope'[m].members = scope[m].members
                               /\ scope'[m].hwpool = scope[m].hwpool /\ args'[m] = args[m]
    PROVE  /\ BasePool(q)' = BasePool(q) /\ GroupColors(q)' = GroupColors(q)
           /\ Primary(q)' = Primary(q)
<1>1. /\ Group(q)' = Group(q) /\ NMembers(q)' = NMembers(q)
      /\ \A i \in 0..(NMembers(q) - 1) : Member(q, i)' = Member(q, i)
  BY GroupFrame
<1>2. BasePool(q)' = BasePool(q)
  <2>. DEFINE f == [m \in Group(q) |-> scope[m].hwpool]
              g == [m \in Group(q) |-> scope'[m].hwpool]
  <2>1. f = g
    OBVIOUS
  <2>2. BasePool(q) = Pool(UNION {f[i].cpuset : i \in DOMAIN f},
                           UNION {f[i].devices : i \in DOMAIN f})
    BY DEF BasePool, set_union
  <2>3. BasePool(q)' = Pool(UNION {g[i].cpuset : i \in DOMAIN g},
                            UNION {g[i].devices : i \in DOMAIN g})
    BY <1>1, Zenon DEF BasePool, set_union, Pool
  <2>. HIDE DEF f, g
  <2>. QED
    BY <2>1, <2>2, <2>3
<1>3. q \in Group(q) /\ Group(q) \subseteq Ranks
  BY DEF GroupInv, RankInv
<1>4. Primary(q)' = Primary(q)
  BY <1>2, <1>3 DEF Primary, m_primary_cpuset_for_split
<1>5. \A i \in 0..(NMembers(q) - 1) : Member(q, i) \in Group(q)
  BY Members
<1>6. GroupColors(q) = [i \in 0..(NMembers(q) - 1) |-> args[Member(q, i)].color]
  BY <1>3, <1>5 DEF GroupColors, ByRank, NMembers
<1>7. GroupColors(q)' = [i \in 0..(NMembers(q) - 1) |-> args'[Member(q, i)].color]
  <2>1. GroupColors(q)' = [i \in 0..(NMembers(q)' - 1) |->
                              [m \in Ranks |-> args'[m].color][Member(q, i)']]
    BY DEF GroupColors, ByRank, NMembers
  <2>. QED
    BY <1>1, <1>3, <1>5, <2>1
<1>. QED
  BY <1>2, <1>4, <1>5, <1>6, <1>7

Untouched(m) ==
    /\ scope'[m] = scope[m] /\ pc'[m] = pc[m] /\ ncalls'[m] = ncalls[m] /\ args'[m] = args[m]
    /\ hwsplit'[m] = hwsplit[m] /\ outbox'[m] = outbox[m]
    /\ colorp'[m] = colorp[m] /\ hwpool'[m] = hwpool[m] /\ rc'[m] = rc[m]

LEMMA GroupStutters ==
    ASSUME GroupInv, NEW q \in Ranks, AtRoot(q), \A m \in Group(q) : Untouched(m)
    PROVE  AtRoot(q)'
<1>. SUFFICES ASSUME IsRoot(q)' PROVE AtRoot(q)'
  BY DEF AtRoot
<1>1. \A m \in Group(q) : scope'[m].members = scope[m].members
  BY DEF Untouched
<1>2. /\ Group(q)' = Group(q) /\ NMembers(q)' = NMembers(q)
      /\ \A m \in Group(q) : group_rank(m)' = group_rank(m) /\ (IsRoot(m)' <=> IsRoot(m))
  BY <1>1, GroupFrame
<1>3. /\ BasePool(q)' = BasePool(q) /\ GroupColors(q)' = GroupColors(q)
      /\ Primary(q)' = Primary(q)
  <2>1. \A m \in Group(q) : /\ scope'[m].members = scope[m].members
                            /\ scope'[m].hwpool = scope[m].hwpool /\ args'[m] = args[m]
    BY DEF Untouched
  <2>. QED
    BY <2>1, SplitFrame
<1>4. q \in Group(q) /\ IsRoot(q)
  BY <1>2 DEF GroupInv, RankInv
<1>5. /\ RootInv(q) /\ VerdictInv(q) /\ ResultInv(q)
      /\ \A m \in Group(q) \ {q} : MemberInv(q, m)
  BY <1>4 DEF AtRoot
<1>6. /\ pc'[q] = pc[q] /\ ncalls'[q] = ncalls[q] /\ outbox'[q] = outbox[q]
      /\ hwsplit'[q] = hwsplit[q]
  BY <1>4 DEF Untouched
<1>7. /\ Done(q)' = Done(q) /\ (Refused(q)' <=> Refused(q)) /\ (Opening(q)' <=> Opening(q))
      /\ (Sent(q)' <=> Sent(q)) /\ Verdict(q)' = Verdict(q)
  BY <1>6 DEF Done, Refused, Opening, Sent, Verdict
<1>8. RootInv(q)'
  BY <1>5, <1>6, <1>7 DEF RootInv
<1>9. VerdictInv(q)'
  BY <1>2, <1>5, <1>7 DEF VerdictInv, Untouched
<1>10. ASSUME NEW m \in Group(q) \ {q} PROVE MemberInv(q, m)'
  <2>1. pc'[m] = pc[m] /\ ncalls'[m] = ncalls[m] /\ MemberInv(q, m)
    BY <1>5 DEF Untouched
  <2>. QED
    BY <1>6, <1>7, <2>1 DEF MemberInv
<1>11. ResultInv(q)'
  <2>1. RootHasSplit(q)' <=> RootHasSplit(q)
    BY <1>2, <1>3, <1>6 DEF RootHasSplit, SplitFits, DevicesFit, ColorsFit
  <2>2. SentFits(q, outbox[q].result)' <=> SentFits(q, outbox[q].result)
    BY <1>2, <1>3, <1>6 DEF SentFits, DevicesFit, ColorsFit
  <2>3. \A m \in Group(q) : HasPart(q, m)' <=> HasPart(q, m)
    BY <1>2, <1>6 DEF HasPart, Untouched
  <2>4. \A m \in Group(q) : pc'[m] = pc[m]
    BY DEF Untouched
  <2>. QED
    BY <1>2, <1>5, <1>6, <1>7, <2>1, <2>2, <2>3, <2>4 DEF ResultInv
<1>. QED
  BY <1>2, <1>8, <1>9, <1>10, <1>11 DEF AtRoot
LEMMA LocalFrame ==
    ASSUME NEW m \in Ranks, LocalInv(m), Untouched(m) PROVE LocalInv(m)'
<1>1. Group(m)' = Group(m)
  BY DEF Untouched, Group
<1>. QED
  BY <1>1 DEF LocalInv, Untouched, make_intrinsic_group

(* A step of the members of one group, which remains a group. *)
LEMMA GroupMoves ==
    ASSUME GroupInv, \A q \in Ranks : AtRoot(q), NEW r \in Ranks, NEW root \in Ranks,
           root = s_root(r),
           \A m \in Ranks \ Group(r) : Untouched(m),
           \A m \in Group(r) : /\ scope'[m].members = scope[m].members
                               /\ scope'[m].depth = scope[m].depth /\ LocalInv(m)',
           AtRoot(root)'
    PROVE  GroupInv' /\ \A q \in Ranks : AtRoot(q)' /\ (IsRoot(q)' <=> IsRoot(q))
<1>1. \A q \in Ranks : /\ scope'[q].members = scope[q].members
                       /\ scope'[q].depth = scope[q].depth
  BY DEF Untouched
<1>2. \A q \in Ranks : RankInv(q) /\ Group(q) \subseteq Ranks
  BY DEF GroupInv, RankInv
<1>3. \A q \in Ranks : Group(q)' = Group(q)
  BY <1>1 DEF Group
<1>4. \A q \in Ranks : IsRoot(q)' <=> IsRoot(q)
  BY <1>3 DEF IsRoot, s_root
<1>5. ASSUME NEW q \in Ranks PROVE RankInv(q)'
  <2>1. LocalInv(q)'
    <3>1. CASE q \in Group(r)
      BY <3>1
    <3>2. CASE q \notin Group(r)
      BY <1>2, <3>2, LocalFrame DEF RankInv
    <3>. QED
      BY <3>1, <3>2
  <2>2. /\ q \in Group(q) /\ Group(q) \subseteq Ranks
        /\ \A m \in Group(q) : Group(m) = Group(q) /\ scope[m].depth = scope[q].depth
    BY <1>2 DEF RankInv
  <2>. QED
    BY <1>1, <1>3, <2>1, <2>2 DEF RankInv
<1>6. ASSUME NEW q \in Ranks PROVE AtRoot(q)'
  <2>1. CASE q = root
    BY <2>1
  <2>2. CASE ~IsRoot(q)
    BY <1>4, <2>2 DEF AtRoot
  <2>3. CASE q # root /\ IsRoot(q)
    <3>1. r \notin Group(q)
      BY <2>3, Roots
    <3>2. ASSUME NEW m \in Group(q) PROVE m \in Ranks \ Group(r)
      <4>1. m \in Ranks /\ Group(m) = Group(q) /\ r \in Group(r)
        BY <1>2 DEF RankInv
      <4>2. m \in Group(r) => Group(m) = Group(r)
        BY <1>2 DEF RankInv
      <4>. QED
        BY <3>1, <4>1, <4>2
    <3>3. \A m \in Group(q) : Untouched(m)
      BY <3>2
    <3>. QED
      BY <3>3, GroupStutters
  <2>. QED
    BY <2>1, <2>2, <2>3
<1>. QED
  BY <1>4, <1>5, <1>6 DEF GroupInv

(* A step of one rank, which stays in its group. *)
LEMMA OneMoves ==
    ASSUME IInv, NEW r \in Ranks, NEW q \in Ranks, q = s_root(r),
           \A m \in Ranks \ {r} : Untouched(m),
           scope'[r].members = scope[r].members, scope'[r].depth = scope[r].depth,
           LocalInv(r)', AtRoot(q)'
    PROVE  GroupInv' /\ \A m \in Ranks : AtRoot(m)' /\ (IsRoot(m)' <=> IsRoot(m))
<1>1. r \in Group(r) /\ Group(r) \subseteq Ranks /\ \A m \in Ranks : LocalInv(m)
  BY DEF IInv, GroupInv, RankInv
<1>2. \A m \in Ranks \ Group(r) : Untouched(m)
  BY <1>1
<1>3. ASSUME NEW m \in Group(r)
      PROVE  /\ scope'[m].members = scope[m].members
             /\ scope'[m].depth = scope[m].depth /\ LocalInv(m)'
  <2>1. CASE m = r
    BY <2>1
  <2>2. CASE m # r
    <3>1. Untouched(m) /\ m \in Ranks
      BY <1>1, <2>2
    <3>. QED
      BY <1>1, <3>1, LocalFrame DEF Untouched
  <2>. QED
    BY <2>1, <2>2
<1>. QED
  BY <1>2, <1>3, GroupMoves DEF IInv

(* The job ends. *)
LEMMA AbortInv ==
    ASSUME IInv, pc' = [r \in Ranks |-> "aborted"], TypeInv',
           UNCHANGED <<scope, bound, ncalls, args, outbox, rc>>
    PROVE  IInv'
<1>1. \A q \in Ranks : Group(q)' = Group(q) /\ (IsRoot(q)' <=> IsRoot(q))
  BY DEF Group, IsRoot, s_root
<1>2. \A q \in Ranks : pc'[q] = "aborted"
  OBVIOUS
<1>3. SideInv'
  BY <1>1, <1>2 DEF IInv, SideInv, Calling
<1>4. GroupInv'
  <2>1. ASSUME NEW r \in Ranks PROVE RankInv(r)'
    <3>1. RankInv(r)
      BY DEF IInv, GroupInv
    <3>2. LocalInv(r)'
      BY <1>1, <1>2, <3>1 DEF RankInv, LocalInv, Calling, make_intrinsic_group
    <3>. QED
      BY <1>1, <3>1, <3>2 DEF RankInv
  <2>. QED
    BY <2>1 DEF GroupInv
<1>5. ASSUME NEW q \in Ranks, IsRoot(q) PROVE AtRoot(q)'
  <2>1. RootInv(q) /\ AtRoot(q) /\ Group(q) \subseteq Ranks
    BY <1>5 DEF IInv, AtRoot, GroupInv, RankInv
  <2>2. ~Sent(q)' /\ ~Opening(q)'
    BY <1>2 DEF Sent, Opening
  <2>3. RootInv(q)'
    BY <1>2, <2>1, <2>2 DEF RootInv
  <2>4. VerdictInv(q)' /\ ResultInv(q)' /\ \A m \in Group(q) : MemberInv(q, m)'
    BY <1>1, <1>2, <2>1, <2>2 DEF VerdictInv, ResultInv, MemberInv
  <2>. QED
    BY <1>1, <2>3, <2>4 DEF AtRoot
<1>6. \A q \in Ranks : AtRoot(q)'
  BY <1>1, <1>5 DEF AtRoot
<1>. QED
  BY <1>3, <1>4, <1>6 DEF IInv

-----------------------------------------------------------------------------
(* Where the members are, seen from one of them. *)

LEMMA Phases ==
    ASSUME IInv, NEW r \in Ranks
    PROVE  \E q \in Ranks :
               /\ q = s_root(r) /\ q \in Group(q) /\ Group(r) = Group(q) /\ IsRoot(q)
               /\ (IsRoot(r) <=> r = q) /\ Group(q) \subseteq Ranks /\ r \in Group(q)
               /\ \A m \in Group(q) : Group(m) = Group(q)
               /\ RootInv(q) /\ VerdictInv(q) /\ ResultInv(q)
               /\ \A m \in Group(q) \ {q} : MemberInv(q, m)
               /\ pc[r] \in {"gather", "bcast", "threw"} => r = q
               /\ pc[r] = "recv" => r # q
               /\ pc[r] \in {"intrinsic", "app"} => Opening(q)
               /\ pc[r] = "group" => Sent(q)
<1>. DEFINE root == s_root(r)
<1>0. root \in Ranks /\ root \in Group(r) /\ IsRoot(root) /\ r \in Group(r)
  BY Roots DEF IInv, GroupInv, RankInv
<1>. HIDE DEF root
<1>. PICK q \in Ranks : q = root
  BY <1>0
<1>1. q \in Group(r) /\ IsRoot(q) /\ r \in Group(r) /\ q = s_root(r)
  BY <1>0 DEF root
<1>2. /\ Group(r) = Group(q) /\ Group(q) \subseteq Ranks
      /\ \A m \in Group(q) : Group(m) = Group(q)
  BY <1>1 DEF IInv, GroupInv, RankInv
<1>3. /\ RootInv(q) /\ VerdictInv(q) /\ ResultInv(q)
      /\ \A m \in Group(q) \ {q} : MemberInv(q, m)
  BY <1>1 DEF IInv, AtRoot
<1>4. pc[q] \in {"intrinsic", "app", "gather", "barrier", "bcast", "recv", "group",
                 "comm_split", "threw", "failed", "aborted"}
      /\ ncalls[q] \in Nat
  BY DEF IInv, TypeInv, TypeOK
<1>5. pc[q] = "aborted" => pc[r] = "aborted"
  BY DEF IInv, SideInv
<1>6. \/ Opening(q) \/ pc[q] \in {"barrier", "threw"} \/ pc[q] = "bcast" \/ Sent(q)
      \/ pc[q] = "aborted"
  BY <1>3, <1>4 DEF RootInv, Opening, Sent
<1>7. ASSUME r = q
      PROVE  /\ pc[r] # "recv" /\ (pc[r] \in {"intrinsic", "app"} => Opening(q))
             /\ pc[r] = "group" => Sent(q)
  BY <1>3, <1>7 DEF RootInv, Opening, Sent
<1>8. ASSUME r # q
      PROVE  /\ pc[r] \notin {"gather", "bcast", "threw"}
             /\ pc[r] \in {"intrinsic", "app"} => Opening(q)
             /\ pc[r] = "group" => Sent(q)
  <2>1. MemberInv(q, r)
    BY <1>1, <1>2, <1>3, <1>8
  <2>. QED
    BY <1>5, <1>6, <2>1 DEF MemberInv
<1>9. IsRoot(r) <=> r = q
  BY <1>1 DEF IsRoot
<1>. QED
  BY <1>1, <1>2, <1>3, <1>7, <1>8, <1>9

-----------------------------------------------------------------------------
(* The initial state, and the steps outside of a split. *)

LEMMA InitInv == Init => IInv
<1>. SUFFICES ASSUME Init PROVE IInv
  OBVIOUS
<1>1. Ranks \subseteq Nat
  BY RanksFinite
<1>2. 0 \in Ranks /\ 0 \in 0..MaxCalls /\ EmptyPool \in HwPools
  BY SplitAssumption DEF Ranks, EmptyPool, Pool, HwPools
<1>3. \A r \in Ranks : /\ make_intrinsic_group(r) \subseteq Ranks /\ r \in make_intrinsic_group(r)
                       /\ \A m \in make_intrinsic_group(r) :
                             make_intrinsic_group(m) = make_intrinsic_group(r)
  BY DEF make_intrinsic_group
<1>4. \A r \in Ranks :
         /\ scope[r].members = make_intrinsic_group(r) /\ scope[r].hwpool = EmptyPool
         /\ scope[r].depth = 0 /\ scope[r].origin = EmptyPool
         /\ pc[r] = "intrinsic" /\ ncalls[r] = 0 /\ outbox[r] = NotYet
  BY DEF Init
<1>5. TypeOK
  <2>1. scope \in [Ranks -> Scopes]
    <3>1. \A r \in Ranks : [members |-> make_intrinsic_group(r), hwpool |-> EmptyPool,
                            depth |-> 0, origin |-> EmptyPool] \in Scopes
      BY <1>2, <1>3 DEF Scopes
    <3>. QED
      BY <3>1 DEF Init
  <2>2. bound \in [Ranks -> SUBSET PUs] /\ top \in [Ranks -> SUBSET PUs]
    BY SplitAssumption DEF Init
  <2>. QED
    BY <1>2, <2>1, <2>2 DEF Init, TypeOK
<1>6. TypeInv
  <2>1. NoArgs \in [npieces : Nat, type : Types \cup {"LAST"},
                    color : Colors \cup {QV_SCOPE_SPLIT_UNDEFINED}]
    BY DEF NoArgs
  <2>. QED
    BY <1>5, <2>1 DEF Init, TypeInv
<1>7. SideInv
  <2>1. \A r \in Ranks : bound[r] # {}
    BY SplitAssumption DEF Init
  <2>. QED
    BY <1>4, <2>1 DEF SideInv, NotYet, Calling
<1>8. GroupInv
  BY <1>3, <1>4 DEF GroupInv, RankInv, LocalInv, Group, Calling
<1>9. ASSUME NEW q \in Ranks PROVE AtRoot(q)
  <2>1. Group(q) \subseteq Ranks
    BY <1>3, <1>4 DEF Group
  <2>2. Done(q) = 0 /\ ~Sent(q) /\ outbox[q].call = 0
    BY <1>4 DEF Done, Sent, NotYet
  <2>3. RootInv(q) /\ VerdictInv(q) /\ ResultInv(q)
    BY <1>4, <2>1, <2>2 DEF RootInv, VerdictInv, ResultInv
  <2>4. \A m \in Group(q) \ {q} : MemberInv(q, m)
    BY <1>4, <2>1, <2>2 DEF MemberInv
  <2>. QED
    BY <2>3, <2>4 DEF AtRoot
<1>. QED
  BY <1>6, <1>7, <1>8, <1>9 DEF IInv

LEMMA BindInv ==
    ASSUME IInv, UNCHANGED <<scope, pc, ncalls, args, hwsplit, outbox, colorp, hwpool, rc>>,
           bound' \in [Ranks -> SUBSET PUs], top' \in [Ranks -> SUBSET PUs],
           \A r \in Ranks : bound'[r] # {}
    PROVE  IInv'
<1>1. \A m \in Ranks : Untouched(m)
  BY DEF Untouched
<1>2. 0 \in Ranks
  BY SplitAssumption DEF Ranks
<1>3. \A q \in Ranks : Group(q)' = Group(q) /\ (IsRoot(q)' <=> IsRoot(q))
  BY DEF Group, IsRoot, s_root
<1>4. ASSUME NEW q \in Ranks PROVE AtRoot(q)'
  BY <1>1, GroupStutters DEF IInv, GroupInv, RankInv
<1>5. GroupInv'
  <2>1. \A q \in Ranks : LocalInv(q)'
    BY <1>1, LocalFrame DEF IInv, GroupInv, RankInv
  <2>. QED
    BY <1>3, <2>1 DEF IInv, GroupInv, RankInv
<1>6. TypeInv'
  BY DEF IInv, TypeInv, TypeOK
<1>7. SideInv'
  BY <1>3 DEF IInv, SideInv
<1>. QED
  BY <1>4, <1>5, <1>6, <1>7 DEF IInv

LEMMA BindPushInv == ASSUME IInv, NEW r \in Ranks, BindPush(r) PROVE IInv'
<1>1. scope[r].hwpool.cpuset \subseteq PUs /\ scope[r].hwpool.cpuset # {}
  BY DEF IInv, TypeInv, TypeOK, Scopes, HwPools, BindPush
<1>2. /\ bound \in [Ranks -> SUBSET PUs] /\ top \in [Ranks -> SUBSET PUs]
      /\ \A m \in Ranks : bound[m] # {}
  BY DEF IInv, TypeInv, TypeOK, SideInv
<1>3. /\ bound' \in [Ranks -> SUBSET PUs] /\ top' \in [Ranks -> SUBSET PUs]
      /\ \A m \in Ranks : bound'[m] # {}
  BY <1>1, <1>2 DEF BindPush
<1>. QED
  BY <1>3, BindInv DEF BindPush

LEMMA CreateAndBindInv ==
    ASSUME IInv, NEW r \in Ranks, NEW nobjs \in Parts, CreateAndBind(r, nobjs) PROVE IInv'
<1>. DEFINE part == get_cpuset_for_nobjs(scope[r].hwpool.cpuset, "CORE", nobjs)
<1>1. part.rc = "SUCCESS" /\ part.cpuset # {} /\ bound' = [bound EXCEPT ![r] = part.cpuset]
  BY DEF CreateAndBind
<1>2. part.cpuset \subseteq PUs
  <2>1. part = [rc |-> "SUCCESS",
                cpuset |-> UNION {c \in get_objs_in_cpuset(scope[r].hwpool.cpuset) :
                                     logical_index(c, scope[r].hwpool.cpuset) < nobjs}]
    BY <1>1 DEF get_cpuset_for_nobjs
  <2>2. get_objs_in_cpuset(scope[r].hwpool.cpuset) \subseteq SUBSET PUs
    BY HardwareAssumption DEF get_objs_in_cpuset
  <2>. HIDE DEF part
  <2>3. part.cpuset = UNION {c \in get_objs_in_cpuset(scope[r].hwpool.cpuset) :
                                logical_index(c, scope[r].hwpool.cpuset) < nobjs}
    BY <2>1
  <2>. QED
    BY <2>2, <2>3
<1>. HIDE DEF part
<1>3. /\ bound \in [Ranks -> SUBSET PUs] /\ top \in [Ranks -> SUBSET PUs]
      /\ \A m \in Ranks : bound[m] # {}
  BY DEF IInv, TypeInv, TypeOK, SideInv
<1>4. /\ bound' \in [Ranks -> SUBSET PUs] /\ top' \in [Ranks -> SUBSET PUs]
      /\ \A m \in Ranks : bound'[m] # {}
  BY <1>1, <1>2, <1>3 DEF CreateAndBind
<1>. QED
  BY <1>4, BindInv DEF CreateAndBind

(* What the server answers to a process, whatever the members of its group *)
(* are bound to: some hardware, or that it does not know of the scope.     *)
LEMMA IntrinsicPool ==
    ASSUME NEW bindings, bindings \subseteq SUBSET PUs, bindings # {}, {} \notin bindings,
           IScope = "PROCESS" => \E b : bindings = {b}
    PROVE  LET reply == get_intrinsic_hwpool(IScope, bindings)
           IN  /\ reply.rc \in {"SUCCESS", "ERR_NOT_SUPPORTED"}
               /\ reply.rc = "SUCCESS" =>
                     /\ reply.hwpool \in HwPools /\ reply.hwpool.cpuset # {}
                     /\ reply.hwpool # EmptyPool
<1>. DEFINE reply == get_intrinsic_hwpool(IScope, bindings)
<1>1. ASSUME NEW cpuset, cpuset \subseteq PUs, cpuset # {}
      PROVE  populate(cpuset) \in HwPools /\ populate(cpuset).cpuset # {} /\ populate(cpuset) # EmptyPool
  BY <1>1 DEF populate, Pool, HwPools, EmptyPool, get_devices_included_in_cpuset
<1>2. CASE IScope = "SYSTEM"
  BY <1>2 DEF get_intrinsic_hwpool
<1>3. ASSUME NEW cpuset, cpuset \subseteq PUs, cpuset # {},
             reply = [rc |-> "SUCCESS", hwpool |-> populate(cpuset)]
      PROVE  reply.rc = "SUCCESS" /\ reply.hwpool \in HwPools /\ reply.hwpool.cpuset # {}
             /\ reply.hwpool # EmptyPool
  <2>. HIDE DEF reply
  <2>1. reply.rc = "SUCCESS" /\ reply.hwpool = populate(cpuset)
    BY <1>3
  <2>. QED
    BY <1>1, <1>3, <2>1
<1>4. CASE IScope = "USER"
  <2>1. reply = [rc |-> "SUCCESS", hwpool |-> populate(PUs)]
    BY <1>4 DEF get_intrinsic_hwpool
  <2>. QED
    BY <1>3, <2>1, SplitAssumption
<1>5. CASE IScope = "JOB"
  <2>1. reply = [rc |-> "SUCCESS", hwpool |-> populate(UNION bindings)]
    BY <1>5 DEF get_intrinsic_hwpool, m_get_iscope_bitmap_job
  <2>2. UNION bindings \subseteq PUs /\ UNION bindings # {}
    OBVIOUS
  <2>. QED
    BY <1>3, <2>1, <2>2
<1>6. CASE IScope = "PROCESS"
  <2>1. PICK b : bindings = {b}
    BY <1>6
  <2>2. reply = [rc |-> "SUCCESS", hwpool |-> populate(CHOOSE c \in bindings : bindings = {c})]
    BY <1>6 DEF get_intrinsic_hwpool
  <2>3. (CHOOSE c \in bindings : bindings = {c}) = b
    BY <2>1
  <2>. QED
    BY <1>3, <2>1, <2>2, <2>3
<1>. QED
  BY <1>2, <1>4, <1>5, <1>6, SplitAssumption

LEMMA GroupBindings ==
    ASSUME IInv, NEW r \in Ranks, pc[r] = "intrinsic"
    PROVE  LET reply == get_intrinsic_hwpool(IScope, {bound[m] : m \in Group(r)})
           IN  /\ reply.rc \in {"SUCCESS", "ERR_NOT_SUPPORTED"}
               /\ reply.rc = "SUCCESS" =>
                     /\ reply.hwpool \in HwPools /\ reply.hwpool.cpuset # {}
                     /\ reply.hwpool # EmptyPool
<1>. DEFINE bindings == {bound[m] : m \in Group(r)}
<1>1. /\ r \in Group(r) /\ Group(r) \subseteq Ranks
      /\ Group(r) = make_intrinsic_group(r)
  BY DEF IInv, GroupInv, RankInv, LocalInv
<1>2. \A m \in Ranks : bound[m] \subseteq PUs /\ bound[m] # {}
  BY DEF IInv, SideInv, TypeInv, TypeOK
<1>3. bindings \subseteq SUBSET PUs /\ bindings # {} /\ {} \notin bindings
  BY <1>1, <1>2
<1>4. IScope = "PROCESS" => \E b : bindings = {b}
  <2>1. IScope = "PROCESS" => Group(r) = {r}
    BY <1>1 DEF make_intrinsic_group
  <2>2. Group(r) = {r} => bindings = {bound[r]}
    OBVIOUS
  <2>. QED
    BY <2>1, <2>2
<1>. HIDE DEF bindings
<1>5. LET reply == get_intrinsic_hwpool(IScope, bindings)
      IN  /\ reply.rc \in {"SUCCESS", "ERR_NOT_SUPPORTED"}
          /\ reply.rc = "SUCCESS" =>
                /\ reply.hwpool \in HwPools /\ reply.hwpool.cpuset # {}
                /\ reply.hwpool # EmptyPool
  BY <1>3, <1>4, IntrinsicPool
<1>. QED
  BY <1>5 DEF bindings

LEMMA MakeIntrinsicInv == ASSUME IInv, NEW r \in Ranks, make_intrinsic(r) PROVE IInv'
<1>. DEFINE reply == get_intrinsic_hwpool(IScope, {bound[m] : m \in Group(r)})
            Got == /\ reply.rc = "SUCCESS"
                   /\ scope' = [scope EXCEPT ![r].hwpool = reply.hwpool, ![r].origin = reply.hwpool]
                   /\ pc' = [pc EXCEPT ![r] = "app"] /\ rc' = [rc EXCEPT ![r] = "SUCCESS"]
            Not == /\ scope' = scope
                   /\ pc' = [pc EXCEPT ![r] = "failed"]
                   /\ rc' = [rc EXCEPT ![r] = IF reply.rc = "SUCCESS" THEN "ERR_RPC" ELSE reply.rc]
<1>1. /\ pc[r] = "intrinsic" /\ (Got \/ Not)
      /\ UNCHANGED <<bound, top, ncalls, args, hwsplit, outbox, colorp, hwpool>>
  BY DEF make_intrinsic, Goto, Return, pids
<1>2. /\ reply.rc \in {"SUCCESS", "ERR_NOT_SUPPORTED"}
      /\ reply.rc = "SUCCESS" =>
            /\ reply.hwpool \in HwPools /\ reply.hwpool.cpuset # {}
            /\ reply.hwpool # EmptyPool
  BY <1>1, GroupBindings
<1>. HIDE DEF reply
<1>3. TypeInv
  BY DEF IInv
<1>4. scope[r] \in Scopes /\ DOMAIN scope = Ranks
  BY <1>3 DEF TypeInv, TypeOK
<1>5. scope' \in [Ranks -> Scopes]
  <2>1. CASE Got
    <3>1. [scope[r] EXCEPT !.hwpool = reply.hwpool, !.origin = reply.hwpool] \in Scopes
      BY <1>2, <1>4, <2>1 DEF Scopes
    <3>. QED
      BY <1>3, <2>1, <3>1 DEF TypeInv, TypeOK
  <2>. QED
    BY <1>1, <1>3, <2>1 DEF TypeInv, TypeOK
<1>6. TypeInv'
  <2>1. pc' \in [Ranks -> {"intrinsic", "app", "gather", "barrier", "bcast", "recv", "group",
                         "comm_split", "threw", "failed", "aborted"}]
    BY <1>1, <1>3 DEF TypeInv, TypeOK
  <2>2. rc' \in [Ranks -> {"SUCCESS", "ERR_SPLIT", "ERR_INVLD_ARG", "RES_UNAVAILABLE",
                         "ERR_RPC", "ERR_NOT_SUPPORTED"}]
    BY <1>1, <1>2, <1>3 DEF TypeInv, TypeOK
  <2>. QED
    BY <1>1, <1>3, <1>5, <2>1, <2>2 DEF TypeInv, TypeOK
<1>7. /\ scope'[r].members = scope[r].members /\ scope'[r].depth = scope[r].depth
      /\ \A m \in Ranks \ {r} : Untouched(m)
  <2>1. scope[r] \in [members : SUBSET Ranks, hwpool : HwPools, depth : 0..MaxCalls, origin : HwPools]
    BY <1>4 DEF Scopes
  <2>2. \A m \in Ranks \ {r} : Untouched(m)
    BY <1>1, <1>3 DEF Untouched, TypeInv, TypeOK
  <2>3. scope'[r].members = scope[r].members /\ scope'[r].depth = scope[r].depth
    BY <1>1, <1>4, <2>1
  <2>. QED
    BY <2>2, <2>3
<1>8. PICK q \in Ranks :
         /\ q = s_root(r) /\ q \in Group(q) /\ Group(r) = Group(q) /\ IsRoot(q)
         /\ Group(q) \subseteq Ranks /\ r \in Group(q)
         /\ RootInv(q) /\ VerdictInv(q) /\ ResultInv(q)
         /\ \A m \in Group(q) \ {q} : MemberInv(q, m)
         /\ Opening(q)
  BY <1>1, Phases
<1>9. LocalInv(r) /\ ncalls[r] = 0 /\ scope[r].depth = 0 /\ scope[r].origin = EmptyPool
  BY <1>1 DEF IInv, GroupInv, RankInv, LocalInv
<1>10. LocalInv(r)'
  <2>1. Group(r)' = Group(r)
    BY <1>7 DEF Group
  <2>2. /\ pc'[r] \in {"app", "failed"} /\ ncalls'[r] = 0 /\ scope'[r].depth = 0
        /\ pc'[r] = "app" => scope'[r].hwpool = reply.hwpool /\ scope'[r].origin = reply.hwpool
                             /\ reply.rc = "SUCCESS"
        /\ pc'[r] = "failed" => scope'[r] = scope[r]
    <3>1. scope[r] \in [members : SUBSET Ranks, hwpool : HwPools, depth : 0..MaxCalls, origin : HwPools]
      BY <1>4 DEF Scopes
    <3>2. r \in DOMAIN pc
      BY <1>3 DEF TypeInv, TypeOK
    <3>. QED
      BY <1>1, <1>4, <1>9, <3>1, <3>2
  <2>3. CASE pc'[r] = "app"
    BY <1>2, <1>9, <2>1, <2>2, <2>3 DEF LocalInv, Calling, make_intrinsic_group
  <2>4. CASE pc'[r] = "failed"
    BY <1>9, <2>1, <2>2, <2>4 DEF LocalInv, Calling, make_intrinsic_group
  <2>. QED
    BY <2>2, <2>3, <2>4
<1>11. AtRoot(q)'
  <2>1. Group(q)' = Group(q)
    <3>1. \A m \in Ranks : Group(m)' = Group(m)
      BY <1>7 DEF Group, Untouched
    <3>. QED
      BY <3>1
  <2>2. Done(q) = 0 /\ ncalls[q] \in Nat
    <3>1. ncalls[q] \in Nat
      BY <1>3 DEF TypeInv, TypeOK
    <3>2. CASE q = r
      BY <1>1, <1>9, <3>2 DEF Done
    <3>3. CASE q # r
      <4>1. MemberInv(q, r)
        BY <1>8, <3>3
      <4>. QED
        BY <1>1, <1>8, <3>1, <4>1 DEF MemberInv
    <3>. QED
      BY <3>1, <3>2, <3>3
  <2>3. /\ \A m \in Ranks \ {r} : pc'[m] = pc[m] /\ rc'[m] = rc[m]
        /\ (pc'[r] = "app" /\ rc'[r] = "SUCCESS") \/ pc'[r] = "failed"
        /\ ncalls' = ncalls /\ outbox' = outbox
    BY <1>1, <1>3 DEF TypeInv, TypeOK
  <2>4. Opening(q)' /\ Done(q)' = 0 /\ ~Sent(q)' /\ ~Refused(q) /\ ~Refused(q)'
        /\ pc'[q] \notin {"barrier", "threw", "bcast", "recv"}
        /\ (pc'[q] = "gather" <=> pc[q] = "gather")
    <3>1. CASE q = r
      BY <1>1, <1>9, <2>3, <3>1 DEF Opening, Done, Sent, Refused
    <3>2. CASE q # r
      BY <1>8, <2>2, <2>3, <3>2 DEF Opening, Done, Sent, Refused
    <3>. QED
      BY <3>1, <3>2
  <2>5. RootInv(q)'
    BY <1>8, <2>3, <2>4 DEF RootInv
  <2>6. VerdictInv(q)'
    BY <1>8, <2>1, <2>3, <2>4 DEF VerdictInv, Verdict
  <2>7. ResultInv(q)'
    BY <2>4 DEF ResultInv
  <2>8. ASSUME NEW m \in Group(q) \ {q} PROVE MemberInv(q, m)'
    <3>1. CASE m = r
      BY <1>9, <2>3, <2>4, <3>1 DEF MemberInv
    <3>2. CASE m # r
      <4>1. MemberInv(q, m) /\ pc'[m] = pc[m] /\ ncalls'[m] = ncalls[m]
        BY <1>8, <2>3, <3>2
      <4>. QED
        BY <1>8, <2>2, <2>4, <4>1 DEF MemberInv
    <3>. QED
      BY <3>1, <3>2
  <2>. QED
    BY <2>1, <2>5, <2>6, <2>7, <2>8 DEF AtRoot
<1>12. GroupInv' /\ \A m \in Ranks : AtRoot(m)' /\ (IsRoot(m)' <=> IsRoot(m))
  BY <1>7, <1>8, <1>10, <1>11, OneMoves
<1>13. SideInv'
  <2>1. \A m \in Ranks : pc'[m] = pc[m] \/ m = r
    BY <1>1, <1>3 DEF TypeInv, TypeOK
  <2>2. pc'[r] \in {"app", "failed"} /\ pc[r] = "intrinsic"
    BY <1>1, <1>3 DEF TypeInv, TypeOK
  <2>3. \A m, n \in Ranks : pc[m] = "aborted" => pc[n] = "aborted"
    BY DEF IInv, SideInv
  <2>4. \A m, n \in Ranks : pc'[m] = "aborted" => pc'[n] = "aborted"
    BY <2>1, <2>2, <2>3
  <2>. QED
    BY <1>1, <1>12, <2>1, <2>2, <2>4 DEF IInv, SideInv, Calling
<1>. QED
  BY <1>6, <1>12, <1>13 DEF IInv

(* The number of objects that qv_split_at counts. *)
LEMMA CountsAreNumbers ==
    ASSUME NEW hwpool_ \in HwPools, NEW type \in {"CORE", "GPU"}
    PROVE  nobjects(hwpool_, type) \in Nat
<1>1. IsFiniteSet(hwpool_.devices)
  <2>1. hwpool_.devices \in SUBSET Devices
    BY DEF HwPools
  <2>. QED
    BY <2>1, HardwareAssumption, FS_Subset
<1>2. IsFiniteSet(get_objs_in_cpuset(hwpool_.cpuset))
  <2>1. IsFiniteSet(SUBSET PUs)
    BY HardwareAssumption, FS_SUBSET
  <2>2. get_objs_in_cpuset(hwpool_.cpuset) \in SUBSET (SUBSET PUs)
    BY HardwareAssumption DEF get_objs_in_cpuset
  <2>. QED
    BY <2>1, <2>2, FS_Subset
<1>3. Cardinality(hwpool_.devices) \in Nat /\ Cardinality(get_objs_in_cpuset(hwpool_.cpuset)) \in Nat
  BY <1>1, <1>2, FS_CardinalityType
<1>. QED
  BY <1>3 DEF nobjects, get_nobjs_in_cpuset

LEMMA CallInv ==
    ASSUME IInv, NEW r \in Ranks, NEW color \in Colors, NEW type \in Types \cup {"LAST"},
           NEW npieces \in Nat, Call(r, color, type, npieces)
    PROVE  IInv'
<1>0. TypeInv /\ \A m \in Ranks : ncalls[m] \in Nat
  BY DEF IInv, TypeInv, TypeOK
<1>1. /\ pc[r] = "app" /\ ncalls[r] < MaxCalls
      /\ ncalls' = [ncalls EXCEPT ![r] = @ + 1]
      /\ args' = [args EXCEPT ![r] = [npieces |-> npieces, type |-> type, color |-> color]]
      /\ pc' = [pc EXCEPT ![r] = IF IsRoot(r) THEN "gather" ELSE "barrier"]
      /\ UNCHANGED <<scope, bound, top, hwsplit, outbox, colorp, hwpool, rc>>
  BY DEF Call, Goto
<1>2. TypeInv'
  <2>1. pc' \in [Ranks -> {"intrinsic", "app", "gather", "barrier", "bcast", "recv", "group",
                         "comm_split", "threw", "failed", "aborted"}]
    BY <1>0, <1>1 DEF TypeInv, TypeOK
  <2>2. ncalls' \in [Ranks -> 0..MaxCalls]
    BY <1>0, <1>1, SplitAssumption DEF TypeInv, TypeOK
  <2>3. args' \in [Ranks -> [npieces : Nat, type : Types \cup {"LAST"},
                             color : Colors \cup {QV_SCOPE_SPLIT_UNDEFINED}]]
    BY <1>0, <1>1 DEF TypeInv
  <2>. QED
    BY <1>0, <1>1, <2>1, <2>2, <2>3 DEF TypeInv, TypeOK
<1>3. /\ pc'[r] = IF IsRoot(r) THEN "gather" ELSE "barrier"
      /\ ncalls'[r] = ncalls[r] + 1 /\ args'[r].color = color
      /\ \A m \in Ranks \ {r} : Untouched(m)
  BY <1>0, <1>1 DEF TypeInv, TypeOK, Untouched
<1>4. PICK q \in Ranks :
         /\ q = s_root(r) /\ q \in Group(q) /\ Group(r) = Group(q) /\ (IsRoot(r) <=> r = q)
         /\ Group(q) \subseteq Ranks /\ r \in Group(q)
         /\ RootInv(q) /\ VerdictInv(q) /\ ResultInv(q)
         /\ \A m \in Group(q) \ {q} : MemberInv(q, m)
         /\ Opening(q)
  BY <1>1, Phases
<1>5. LocalInv(r)'
  <2>1. Group(r)' = Group(r) /\ scope'[r] = scope[r] /\ LocalInv(r) /\ scope[r].depth \in Nat
    BY <1>0, <1>1 DEF Group, IInv, GroupInv, RankInv, TypeInv, TypeOK, Scopes
  <2>2. pc'[r] \in {"gather", "barrier"}
    BY <1>3
  <2>. QED
    BY <1>0, <1>1, <1>3, <2>1, <2>2 DEF LocalInv, make_intrinsic_group
<1>6. AtRoot(q)'
  <2>1. Group(q)' = Group(q) /\ outbox' = outbox /\ rc' = rc
    BY <1>1 DEF Group
  <2>2. \A m \in Ranks \ {r} : pc'[m] = pc[m] /\ ncalls'[m] = ncalls[m]
    BY <1>3 DEF Untouched
  <2>3. /\ Opening(q)' /\ Done(q)' = Done(q) /\ (Refused(q)' <=> Refused(q)) /\ ~Sent(q)'
        /\ pc'[q] \notin {"barrier", "bcast", "threw"}
    <3>1. CASE q = r
      <4>1. Done(q)' = Done(q) /\ pc'[q] = "gather"
        BY <1>0, <1>1, <1>3, <1>4, <3>1 DEF Done
      <4>. QED
        BY <2>1, <4>1 DEF Opening, Sent, Refused
    <3>2. CASE q # r
      BY <1>0, <1>4, <2>1, <2>2, <3>2 DEF Opening, Done, Sent, Refused
    <3>. QED
      BY <3>1, <3>2
  <2>4. RootInv(q)'
    <3>1. CASE q = r
      BY <1>0, <1>1, <1>3, <1>4, <2>1, <2>3, <3>1 DEF RootInv
    <3>2. CASE q # r
      BY <1>4, <2>1, <2>2, <2>3, <3>2 DEF RootInv
    <3>. QED
      BY <3>1, <3>2
  <2>5. VerdictInv(q)'
    <3>1. Verdict(q)' = Verdict(q)
      BY <2>1, <2>3 DEF Verdict
    <3>. QED
      BY <1>3, <1>4, <2>1, <2>2, <3>1 DEF VerdictInv
  <2>6. ResultInv(q)'
    BY <2>3 DEF ResultInv
  <2>7. ASSUME NEW m \in Group(q) \ {q} PROVE MemberInv(q, m)'
    <3>1. MemberInv(q, m)
      BY <1>4
    <3>2. CASE m = r
      <4>1. pc'[m] = "barrier" /\ ncalls'[m] = Done(q) + 1
        BY <1>1, <1>3, <1>4, <3>1, <3>2 DEF MemberInv
      <4>. QED
        BY <2>3, <4>1 DEF MemberInv
    <3>3. CASE m # r
      BY <1>4, <2>2, <2>3, <3>1, <3>3 DEF MemberInv
    <3>. QED
      BY <3>2, <3>3
  <2>. QED
    BY <2>1, <2>4, <2>5, <2>6, <2>7 DEF AtRoot
<1>7. GroupInv' /\ \A m \in Ranks : AtRoot(m)' /\ (IsRoot(m)' <=> IsRoot(m))
  BY <1>1, <1>3, <1>4, <1>5, <1>6, OneMoves
<1>8. SideInv'
  <2>1. \A m \in Ranks \ {r} : pc'[m] = pc[m] /\ args'[m] = args[m]
    BY <1>3 DEF Untouched
  <2>2. \A m, n \in Ranks : pc[m] = "aborted" => pc[n] = "aborted"
    BY DEF IInv, SideInv
  <2>3. \A m, n \in Ranks : pc'[m] = "aborted" => pc'[n] = "aborted"
    BY <1>1, <1>3, <2>1, <2>2
  <2>. QED
    BY <1>1, <1>3, <1>7, <2>1, <2>3 DEF IInv, SideInv
<1>. QED
  BY <1>2, <1>7, <1>8 DEF IInv

LEMMA SplitCallInv ==
    ASSUME IInv, NEW r \in Ranks, qv_split(r) \/ qv_split_at(r) PROVE IInv'
<1>1. CASE qv_split(r)
  <2>1. PICK color \in Colors :
           \/ Call(r, color, NoArgs.type, NoArgs.npieces)
           \/ \E npieces \in PieceCounts : Call(r, color, "LAST", npieces)
    BY <1>1 DEF qv_split
  <2>2. NoArgs.type = "LAST" /\ NoArgs.npieces = 0
    BY DEF NoArgs
  <2>3. PieceCounts \subseteq Nat
    BY SplitAssumption
  <2>4. PICK npieces \in Nat : Call(r, color, "LAST", npieces)
    BY <2>1, <2>2, <2>3
  <2>. QED
    BY <2>4, CallInv
<1>2. CASE qv_split_at(r)
  <2>1. \E color \in Colors, type \in Types \ {"LAST"} :
            Call(r, color, type, nobjects(scope[r].hwpool, type))
    BY <1>2 DEF qv_split_at
  <2>2. PICK color \in Colors, type \in Types \ {"LAST"} :
            Call(r, color, type, nobjects(scope[r].hwpool, type))
    BY <2>1
  <2>3. type \in {"CORE", "GPU"} /\ scope[r].hwpool \in HwPools
    BY SplitAssumption DEF IInv, TypeInv, TypeOK, Scopes
  <2>4. nobjects(scope[r].hwpool, type) \in Nat
    BY <2>3, CountsAreNumbers
  <2>. QED
    BY <2>2, <2>4, CallInv
<1>. QED
  BY <1>1, <1>2

-----------------------------------------------------------------------------
(* The steps inside of a split. *)

LEMMA SplitArguments ==
    ASSUME IInv, NEW r \in Ranks
    PROVE  /\ BasePool(r) \in HwPools /\ args[r].npieces \in Nat
           /\ GroupColors(r) \in [0..(NMembers(r) - 1) -> Int]
           /\ \A m \in Group(r) : GroupColors(r)[group_rank(m)] = args[m].color
           /\ (\A m \in Group(r) : args[m].color \in Colors) =>
                 GroupColors(r) \in [0..(NMembers(r) - 1) -> Colors]
           /\ BasePool(r).cpuset = UNION {scope[m].hwpool.cpuset : m \in Group(r)}
           /\ BasePool(r).devices = UNION {scope[m].hwpool.devices : m \in Group(r)}
<1>1. Group(r) \subseteq Ranks /\ \A m \in Ranks : scope[m].hwpool \in HwPools
  BY DEF IInv, GroupInv, RankInv, TypeInv, TypeOK, Scopes
<1>2. /\ BasePool(r).cpuset = UNION {scope[m].hwpool.cpuset : m \in Group(r)}
      /\ BasePool(r).devices = UNION {scope[m].hwpool.devices : m \in Group(r)}
      /\ BasePool(r) = Pool(BasePool(r).cpuset, BasePool(r).devices)
  <2>. DEFINE f == [m \in Group(r) |-> scope[m].hwpool]
  <2>1. {f[i].cpuset : i \in DOMAIN f} = {scope[m].hwpool.cpuset : m \in Group(r)}
    OBVIOUS
  <2>2. {f[i].devices : i \in DOMAIN f} = {scope[m].hwpool.devices : m \in Group(r)}
    OBVIOUS
  <2>3. BasePool(r) = Pool(UNION {f[i].cpuset : i \in DOMAIN f},
                           UNION {f[i].devices : i \in DOMAIN f})
    BY DEF BasePool, set_union
  <2>. DEFINE C == UNION {scope[m].hwpool.cpuset : m \in Group(r)}
              D == UNION {scope[m].hwpool.devices : m \in Group(r)}
  <2>4. BasePool(r) = Pool(C, D)
    BY <2>1, <2>2, <2>3, Zenon
  <2>. HIDE DEF f, C, D
  <2>5. BasePool(r).cpuset = C /\ BasePool(r).devices = D
    BY <2>4 DEF Pool
  <2>. QED
    BY <2>4, <2>5 DEF C, D
<1>3. BasePool(r) \in HwPools
  <2>1. \A m \in Group(r) : scope[m].hwpool.cpuset \subseteq PUs /\ scope[m].hwpool.devices \subseteq Devices
    BY <1>1 DEF HwPools
  <2>2. BasePool(r).cpuset \subseteq PUs
    BY <1>2, <2>1
  <2>3. BasePool(r).devices \subseteq Devices
    BY <1>2, <2>1
  <2>4. Pool(BasePool(r).cpuset, BasePool(r).devices) \in HwPools
    BY <2>2, <2>3 DEF Pool, HwPools
  <2>. QED
    BY <1>2, <2>4
<1>4. args[r].npieces \in Nat /\ \A m \in Ranks : args[m].color \in Int
  <2>1. Colors \cup {QV_SCOPE_SPLIT_UNDEFINED} \subseteq Int
    BY SplitAssumption DEF QV_SCOPE_SPLIT_UNDEFINED
  <2>2. \A m \in Ranks : args[m].color \in Colors \cup {QV_SCOPE_SPLIT_UNDEFINED}
    BY DEF IInv, TypeInv
  <2>3. args[r].npieces \in Nat
    BY DEF IInv, TypeInv
  <2>. QED
    BY <2>1, <2>2, <2>3
<1>5. /\ \A i \in 0..(NMembers(r) - 1) : Member(r, i) \in Group(r) /\ group_rank(Member(r, i)) = i
      /\ \A m \in Group(r) : group_rank(m) \in 0..(NMembers(r) - 1)
      /\ \A m, n \in Group(r) : group_rank(m) = group_rank(n) => m = n
  BY Members DEF IInv
<1>6. GroupColors(r) = [i \in 0..(NMembers(r) - 1) |-> args[Member(r, i)].color]
  BY <1>1, <1>5 DEF GroupColors, ByRank, NMembers
<1>7. \A m \in Group(r) : Member(r, group_rank(m)) = m
  BY <1>5
<1>8. GroupColors(r) \in [0..(NMembers(r) - 1) -> Int]
  BY <1>1, <1>4, <1>5, <1>6
<1>9. \A m \in Group(r) : GroupColors(r)[group_rank(m)] = args[m].color
  BY <1>5, <1>6, <1>7
<1>10. (\A m \in Group(r) : args[m].color \in Colors) =>
           GroupColors(r) \in [0..(NMembers(r) - 1) -> Colors]
  BY <1>5, <1>6
<1>. QED
  BY <1>2, <1>3, <1>4, <1>8, <1>9, <1>10

LEMMA RootSplitsInv == ASSUME IInv, NEW r \in Ranks, RootSplits(r) PROVE IInv'
<1>0. TypeInv /\ ncalls[r] \in Nat
  BY DEF IInv, TypeInv, TypeOK
<1>. DEFINE outcomes == m_split(BasePool(r), args[r].type, args[r].npieces,
                                ByRank(r, top), GroupColors(r))
<1>1. /\ pc[r] = "gather"
      /\ \A m \in Group(r) \ {r} : pc[m] = "barrier"
      /\ UNCHANGED <<scope, bound, top, ncalls, args, outbox, colorp, hwpool>>
      /\ \E outcome \in outcomes :
            \/ /\ outcome.kind = "rc"
               /\ hwsplit' = [hwsplit EXCEPT ![r] = outcome]
               /\ pc' = [pc EXCEPT ![r] = "barrier"] /\ rc' = rc
            \/ pc' = [pc EXCEPT ![r] = "threw"] /\ rc' = rc /\ hwsplit' = hwsplit
            \/ JobAborts /\ hwsplit' = hwsplit
  BY DEF RootSplits, Goto, BasePool, GroupColors
<1>2. PICK outcome \in outcomes :
         \/ /\ outcome.kind = "rc"
            /\ hwsplit' = [hwsplit EXCEPT ![r] = outcome]
            /\ pc' = [pc EXCEPT ![r] = "barrier"] /\ rc' = rc
         \/ pc' = [pc EXCEPT ![r] = "threw"] /\ rc' = rc /\ hwsplit' = hwsplit
         \/ JobAborts /\ hwsplit' = hwsplit
  BY <1>1
<1>3. CASE JobAborts /\ hwsplit' = hwsplit
  <2>1. TypeInv'
    BY <1>0, <1>1, <1>3 DEF JobAborts, TypeInv, TypeOK
  <2>. QED
    BY <1>1, <1>3, <2>1, AbortInv DEF JobAborts
<1>4. ASSUME pc'[r] \in {"barrier", "threw"}, rc' = rc,
             \A m \in Ranks \ {r} : pc'[m] = pc[m] /\ hwsplit'[m] = hwsplit[m],
             TypeInv', pc'[r] = "barrier" => RootHasSplit(r)'
      PROVE  IInv'
  <2>1. \A m \in Ranks \ {r} : Untouched(m)
    BY <1>1, <1>4 DEF Untouched
  <2>2. /\ r = s_root(r) /\ r \in Group(r) /\ Group(r) \subseteq Ranks
        /\ RootInv(r) /\ \A m \in Group(r) \ {r} : MemberInv(r, m)
    BY <1>1, Phases
  <2>3. LocalInv(r)'
    <3>1. Group(r)' = Group(r) /\ scope'[r] = scope[r] /\ LocalInv(r) /\ scope[r].depth \in Nat
      BY <1>0, <1>1 DEF Group, IInv, GroupInv, RankInv, TypeInv, TypeOK, Scopes
    <3>. QED
      BY <1>1, <1>4, <3>1 DEF LocalInv, make_intrinsic_group, Calling
  <2>4. AtRoot(r)'
    <3>1. Group(r)' = Group(r) /\ ~Sent(r)' /\ ~Opening(r)'
      BY <1>1, <1>4 DEF Group, Sent, Opening
    <3>2. RootInv(r)'
      BY <1>1, <1>4, <2>2, <3>1 DEF RootInv
    <3>3. ASSUME NEW m \in Group(r) \ {r} PROVE MemberInv(r, m)' /\ pc'[m] = "barrier"
      <4>1. MemberInv(r, m) /\ pc[m] = "barrier" /\ Opening(r) /\ Done(r) = ncalls[r] - 1
        BY <1>1, <2>2 DEF Opening, Done
      <4>2. ncalls[m] = ncalls[r]
        BY <1>0, <4>1 DEF MemberInv
      <4>3. pc'[m] = "barrier"
        BY <1>4, <2>2, <4>1
      <4>. QED
        BY <1>1, <1>4, <3>1, <4>2, <4>3 DEF MemberInv
    <3>4. VerdictInv(r)'
      BY <1>4, <3>1, <3>3 DEF VerdictInv
    <3>5. ResultInv(r)'
      BY <1>4, <3>1 DEF ResultInv
    <3>. QED
      BY <3>1, <3>2, <3>3, <3>4, <3>5 DEF AtRoot
  <2>5. GroupInv' /\ \A m \in Ranks : AtRoot(m)' /\ (IsRoot(m)' <=> IsRoot(m))
    <3>1. scope'[r].members = scope[r].members /\ scope'[r].depth = scope[r].depth
      BY <1>1
    <3>. QED
      BY <2>1, <2>2, <2>3, <2>4, <3>1, OneMoves
  <2>6. SideInv'
    <3>1. \A m, n \in Ranks : pc[m] = "aborted" => pc[n] = "aborted"
      BY DEF IInv, SideInv
    <3>2. \A m, n \in Ranks : pc'[m] = "aborted" => pc'[n] = "aborted"
      BY <1>1, <1>4, <3>1
    <3>3. \A m \in Ranks : pc'[m] \in Calling => pc[m] \in Calling
      BY <1>1, <1>4 DEF Calling
    <3>. QED
      BY <1>1, <2>5, <3>2, <3>3 DEF IInv, SideInv
  <2>. QED
    BY <1>4, <2>5, <2>6 DEF IInv
<1>5. CASE pc' = [pc EXCEPT ![r] = "threw"] /\ rc' = rc /\ hwsplit' = hwsplit
  <2>1. /\ pc'[r] = "threw"
        /\ \A m \in Ranks \ {r} : pc'[m] = pc[m] /\ hwsplit'[m] = hwsplit[m]
    BY <1>0, <1>5 DEF TypeInv, TypeOK
  <2>2. TypeInv'
    BY <1>0, <1>1, <1>5 DEF TypeInv, TypeOK
  <2>. QED
    BY <1>4, <1>5, <2>1, <2>2
<1>6. CASE /\ outcome.kind = "rc"
           /\ hwsplit' = [hwsplit EXCEPT ![r] = outcome]
           /\ pc' = [pc EXCEPT ![r] = "barrier"] /\ rc' = rc
  <2>1. /\ pc'[r] = "barrier" /\ hwsplit'[r] = outcome
        /\ \A m \in Ranks \ {r} : pc'[m] = pc[m] /\ hwsplit'[m] = hwsplit[m]
    BY <1>0, <1>6 DEF TypeInv, TypeOK
  <2>2. TypeInv'
    BY <1>0, <1>1, <1>6 DEF TypeInv, TypeOK
  <2>3. \/ outcome \in {Throws, Crashes, Returns("ERR_SPLIT"), Returns("ERR_INVLD_ARG")}
        \/ SplitFits(BasePool(r), Primary(r), NMembers(r), GroupColors(r), outcome)
    <3>1. /\ BasePool(r) \in HwPools /\ args[r].npieces \in Nat
          /\ GroupColors(r) \in [0..(NMembers(r) - 1) -> Int]
      BY SplitArguments
    <3>2. NMembers(r) \in Nat \ {0}
      BY Members DEF IInv
    <3>3. DOMAIN ByRank(r, top) = 0..(NMembers(r) - 1)
      BY DEF ByRank, NMembers
    <3>. QED
      BY <3>1, <3>2, <3>3, SplitOutcome DEF Primary
  <2>4. outcome \notin {Throws, Crashes}
    BY <1>6 DEF Throws, Crashes
  <2>5. RootHasSplit(r)'
    <3>1. /\ BasePool(r)' = BasePool(r) /\ GroupColors(r)' = GroupColors(r)
          /\ Primary(r)' = Primary(r)
      BY <1>1, SplitFrame DEF IInv
    <3>2. NMembers(r)' = NMembers(r)
      BY <1>1 DEF NMembers, Group
    <3>. QED
      BY <2>1, <2>3, <2>4, <3>1, <3>2 DEF RootHasSplit, SplitFits, DevicesFit, ColorsFit
  <2>. QED
    BY <1>4, <1>6, <2>1, <2>2, <2>5
<1>. QED
  BY <1>2, <1>3, <1>5, <1>6

LEMMA BarrierInv == ASSUME IInv, NEW r \in Ranks, Barrier(r) PROVE IInv'
<1>0. TypeInv
  BY DEF IInv
<1>1. /\ IsRoot(r) /\ \A m \in Group(r) : pc[m] = "barrier"
      /\ pc' = [m \in Ranks |-> IF m = r THEN "bcast"
                                ELSE IF m \in Group(r) THEN "recv" ELSE pc[m]]
      /\ UNCHANGED <<scope, bound, top, ncalls, args, hwsplit, outbox, colorp, hwpool, rc>>
  BY DEF Barrier
<1>2. /\ r = s_root(r) /\ r \in Group(r) /\ Group(r) \subseteq Ranks
      /\ RootInv(r) /\ ResultInv(r) /\ \A m \in Group(r) \ {r} : MemberInv(r, m)
  BY <1>1, Phases
<1>3. /\ pc'[r] = "bcast" /\ \A m \in Group(r) \ {r} : pc'[m] = "recv"
      /\ \A m \in Ranks \ Group(r) : pc'[m] = pc[m]
  BY <1>1, <1>2
<1>4. \A m \in Ranks \ Group(r) : Untouched(m)
  BY <1>1, <1>3 DEF Untouched
<1>5. TypeInv'
  <2>1. pc' \in [Ranks -> {"intrinsic", "app", "gather", "barrier", "bcast", "recv", "group",
                         "comm_split", "threw", "failed", "aborted"}]
    BY <1>0, <1>1 DEF TypeInv, TypeOK
  <2>. QED
    BY <1>0, <1>1, <2>1 DEF TypeInv, TypeOK
<1>6. ASSUME NEW m \in Group(r) PROVE LocalInv(m)'
  <2>1. Group(m)' = Group(m) /\ scope'[m] = scope[m] /\ LocalInv(m) /\ pc[m] = "barrier"
    BY <1>1, <1>2 DEF Group, IInv, GroupInv, RankInv
  <2>2. pc'[m] \in {"bcast", "recv"}
    BY <1>3
  <2>. QED
    BY <1>1, <2>1, <2>2 DEF LocalInv, make_intrinsic_group, Calling
<1>7. AtRoot(r)'
  <2>1. Group(r)' = Group(r) /\ ~Sent(r)' /\ ~Opening(r)'
    BY <1>1, <1>3 DEF Group, Sent, Opening
  <2>2. RootInv(r)'
    BY <1>1, <1>2, <1>3, <2>1 DEF RootInv
  <2>3. ASSUME NEW m \in Group(r) \ {r} PROVE MemberInv(r, m)'
    <3>1. ncalls[m] = ncalls[r]
      BY <1>1, <1>2 DEF MemberInv
    <3>. QED
      BY <1>1, <1>3, <2>1, <3>1 DEF MemberInv
  <2>4. VerdictInv(r)'
    BY <1>3, <2>1 DEF VerdictInv
  <2>5. ResultInv(r)'
    <3>1. RootHasSplit(r)
      BY <1>1, <1>2 DEF ResultInv
    <3>2. /\ BasePool(r)' = BasePool(r) /\ GroupColors(r)' = GroupColors(r)
          /\ Primary(r)' = Primary(r)
      BY <1>1, SplitFrame DEF IInv
    <3>3. NMembers(r)' = NMembers(r)
      BY <1>1 DEF NMembers, Group
    <3>4. RootHasSplit(r)'
      BY <1>1, <3>1, <3>2, <3>3 DEF RootHasSplit, SplitFits, DevicesFit, ColorsFit
    <3>. QED
      BY <2>1, <3>4 DEF ResultInv
  <2>. QED
    BY <2>1, <2>2, <2>3, <2>4, <2>5 DEF AtRoot
<1>8. GroupInv' /\ \A m \in Ranks : AtRoot(m)' /\ (IsRoot(m)' <=> IsRoot(m))
  <2>1. \A m \in Group(r) : /\ scope'[m].members = scope[m].members
                            /\ scope'[m].depth = scope[m].depth /\ LocalInv(m)'
    BY <1>1, <1>6
  <2>. QED
    BY <1>2, <1>4, <1>7, <2>1, GroupMoves DEF IInv
<1>9. SideInv'
  <2>1. \A m, n \in Ranks : pc[m] = "aborted" => pc[n] = "aborted"
    BY DEF IInv, SideInv
  <2>2. \A m, n \in Ranks : pc'[m] = "aborted" => pc'[n] = "aborted"
    BY <1>1, <1>2, <1>3, <2>1
  <2>3. \A m \in Ranks : pc'[m] \in Calling => pc[m] \in Calling
    BY <1>1, <1>3 DEF Calling
  <2>. QED
    BY <1>1, <1>8, <2>2, <2>3 DEF IInv, SideInv
<1>. QED
  BY <1>5, <1>8, <1>9 DEF IInv

(* What the scatter sends fits, also when it reads what is left of the     *)
(* callers' colors: these are negative then.                               *)
LEMMA ScatterFits ==
    ASSUME IInv, NEW r \in Ranks, \A m \in Group(r) : args[m].color \in Colors,
           SplitFits(BasePool(r), Primary(r), NMembers(r), GroupColors(r), hwsplit[r])
    PROVE  /\ SentFits(r, Scattered(r)) /\ Scattered(r).rc = "SUCCESS"
           /\ \A i \in 0..(NMembers(r) - 1) :
                 Scattered(r).colors[i] \in Ranks \cup Colors /\ Scattered(r).hwpools[i] \in HwPools
<1>. DEFINE result == hwsplit[r]
            stale == GroupColors(r)
            sent == Scattered(r)
            I == 0..(NMembers(r) - 1)
            mixed == [i \in I |-> IF i \in DOMAIN result.colors THEN result.colors[i] ELSE stale[i]]
<1>1. stale \in [I -> Colors]
  BY SplitArguments
<1>2. /\ result = Splits(result.colors, result.hwpools)
      /\ result.hwpools \in [I -> HwPools]
      /\ \/ ColorsFit(Primary(r), NMembers(r), result)
         \/ DOMAIN result.colors = {} /\ \A t \in I : stale[t] < 0
      /\ DevicesFit(BasePool(r), NMembers(r), result)
  BY DEF SplitFits
<1>3. sent = [result EXCEPT !.colors =
                 [i \in DOMAIN stale |-> IF i \in DOMAIN @ THEN @[i] ELSE stale[i]]]
  BY DEF Scattered, GroupColors
<1>. HIDE DEF result, stale, sent, I
<1>4. sent.hwpools = result.hwpools /\ sent.colors = mixed /\ sent.rc = "SUCCESS"
  <2>1. DOMAIN stale = I
    BY <1>1
  <2>2. result = [kind |-> "rc", rc |-> "SUCCESS", colors |-> result.colors, hwpools |-> result.hwpools]
    BY <1>2 DEF Splits
  <2>3. sent.hwpools = result.hwpools /\ sent.rc = result.rc
    BY <1>3, <2>2
  <2>4. sent.colors = mixed
    BY <1>3, <2>1, <2>2
  <2>. QED
    BY <2>2, <2>3, <2>4
<1>. HIDE DEF mixed
<1>5. DevicesFit(BasePool(r), NMembers(r), sent)
  BY <1>2, <1>4, Zenon DEF DevicesFit
<1>6. CASE ColorsFit(Primary(r), NMembers(r), result)
  <2>1. result.colors \in [I -> I]
    BY <1>6 DEF ColorsFit, I
  <2>2. mixed = result.colors
    BY <2>1 DEF mixed
  <2>3. ColorsFit(Primary(r), NMembers(r), sent)
    <3>1. sent.colors = result.colors /\ sent.hwpools = result.hwpools
      BY <1>4, <2>2
    <3>2. result.colors \in [0..(NMembers(r) - 1) -> 0..(NMembers(r) - 1)]
      BY <1>6 DEF ColorsFit
    <3>3. /\ \A t \in I : sent.hwpools[t].cpuset # {} /\ sent.hwpools[t].cpuset \subseteq Primary(r)
          /\ \A t, u \in I : sent.colors[t] = sent.colors[u] =>
                sent.hwpools[t].cpuset = sent.hwpools[u].cpuset
      BY <1>6, <3>1, Zenon DEF ColorsFit, I
    <3>4. ASSUME NEW t \in I, NEW u \in I, sent.colors[t] # sent.colors[u]
          PROVE  sent.hwpools[t].cpuset \cap sent.hwpools[u].cpuset = {}
      <4>1. result.hwpools[t].cpuset \cap result.hwpools[u].cpuset = {}
        BY <1>6, <3>1, <3>4, Zenon DEF ColorsFit, I
      <4>. QED
        BY <3>1, <4>1
    <3>. QED
      BY <3>1, <3>2, <3>3, <3>4, Zenon DEF ColorsFit, I
  <2>4. I \subseteq Ranks
    <3>1. NMembers(r) \in Nat /\ NMembers(r) <= NRanks /\ NRanks \in Nat
      BY Members, SplitAssumption DEF IInv
    <3>. QED
      BY <3>1 DEF I, Ranks
  <2>. QED
    BY <1>2, <1>4, <1>5, <2>1, <2>2, <2>3, <2>4 DEF SentFits, I, sent
<1>7. CASE DOMAIN result.colors = {} /\ \A t \in I : stale[t] < 0
  <2>1. mixed = stale
    BY <1>1, <1>7 DEF mixed
  <2>2. mixed \in [I -> {c \in Colors : c < 0}]
    BY <1>1, <1>7, <2>1
  <2>. QED
    BY <1>2, <1>4, <1>5, <2>2 DEF SentFits, I, sent
<1>. QED
  BY <1>2, <1>6, <1>7

LEMMA RootSendsInv == ASSUME IInv, NEW r \in Ranks, RootSends(r) PROVE IInv'
<1>0. TypeInv /\ ncalls[r] \in Nat
  BY DEF IInv, TypeInv, TypeOK
<1>1. pc[r] = "bcast" /\ UNCHANGED <<scope, bound, top, ncalls, args, hwsplit>>
  BY DEF RootSends
<1>2. /\ r = s_root(r) /\ r \in Group(r) /\ Group(r) \subseteq Ranks /\ IsRoot(r)
      /\ RootInv(r) /\ VerdictInv(r) /\ ResultInv(r)
      /\ \A m \in Group(r) \ {r} : MemberInv(r, m)
  BY <1>1, Phases
<1>3. /\ \A m \in Group(r) \ {r} : pc[m] = "recv" /\ ncalls[m] = ncalls[r]
      /\ outbox[r].call \in Nat /\ outbox[r].call < ncalls[r] /\ RootHasSplit(r)
  BY <1>0, <1>1, <1>2 DEF MemberInv, RootInv, ResultInv
<1>4. /\ Group(r)' = Group(r) /\ NMembers(r)' = NMembers(r)
      /\ \A m \in Group(r) : group_rank(m)' = group_rank(m)
      /\ BasePool(r)' = BasePool(r) /\ GroupColors(r)' = GroupColors(r) /\ Primary(r)' = Primary(r)
  BY <1>1, GroupFrame, SplitFrame DEF IInv
<1>5. ASSUME pc'[r] \in {"app", "group"}, \A m \in Ranks \ {r} : Untouched(m), TypeInv', AtRoot(r)'
      PROVE  IInv'
  <2>1. LocalInv(r)'
    <3>1. Group(r)' = Group(r) /\ scope'[r] = scope[r] /\ LocalInv(r) /\ scope[r].depth \in Nat
      BY <1>0, <1>1 DEF Group, IInv, GroupInv, RankInv, TypeInv, TypeOK, Scopes
    <3>. QED
      BY <1>1, <1>5, <3>1 DEF LocalInv, make_intrinsic_group, Calling
  <2>2. GroupInv' /\ \A m \in Ranks : AtRoot(m)' /\ (IsRoot(m)' <=> IsRoot(m))
    <3>1. scope'[r].members = scope[r].members /\ scope'[r].depth = scope[r].depth
      BY <1>1
    <3>. QED
      BY <1>2, <1>5, <2>1, <3>1, OneMoves
  <2>3. SideInv'
    <3>1. \A m, n \in Ranks : pc[m] = "aborted" => pc[n] = "aborted"
      BY DEF IInv, SideInv
    <3>2. \A m \in Ranks \ {r} : pc'[m] = pc[m] /\ outbox'[m] = outbox[m]
      BY <1>5 DEF Untouched
    <3>3. \A m, n \in Ranks : pc'[m] = "aborted" => pc'[n] = "aborted"
      BY <1>1, <1>5, <3>1, <3>2
    <3>4. \A m \in Ranks : pc'[m] \in Calling => pc[m] \in Calling
      BY <1>1, <1>5, <3>2 DEF Calling
    <3>5. \A m \in Ranks : ~IsRoot(m)' => outbox'[m].call = 0
      <4>1. \A m \in Ranks : ~IsRoot(m) => outbox[m].call = 0
        BY DEF IInv, SideInv
      <4>. QED
        BY <1>2, <2>2, <3>2, <4>1
    <3>. QED
      BY <1>1, <3>3, <3>4, <3>5 DEF IInv, SideInv
  <2>. QED
    BY <1>5, <2>2, <2>3 DEF IInv
<1>6. CASE /\ hwsplit[r].rc # "SUCCESS"
           /\ outbox' = [outbox EXCEPT ![r] = [call |-> ncalls[r], result |-> hwsplit[r]]]
           /\ Return(r, hwsplit[r].rc)
           /\ UNCHANGED <<colorp, hwpool>>
  <2>1. /\ pc' = [pc EXCEPT ![r] = "app"] /\ rc' = [rc EXCEPT ![r] = hwsplit[r].rc]
    BY <1>6 DEF Return, Goto
  <2>2. hwsplit[r].rc \in {"ERR_SPLIT", "ERR_INVLD_ARG"}
    BY <1>3, <1>6 DEF RootHasSplit, SplitFits, Splits, Returns
  <2>3. TypeInv'
    <3>1. pc' \in [Ranks -> {"intrinsic", "app", "gather", "barrier", "bcast", "recv", "group",
                         "comm_split", "threw", "failed", "aborted"}]
      BY <1>0, <2>1 DEF TypeInv, TypeOK
    <3>2. rc' \in [Ranks -> {"SUCCESS", "ERR_SPLIT", "ERR_INVLD_ARG", "RES_UNAVAILABLE",
                         "ERR_RPC", "ERR_NOT_SUPPORTED"}]
      BY <1>0, <2>1, <2>2 DEF TypeInv, TypeOK
    <3>. QED
      BY <1>0, <1>1, <1>6, <3>1, <3>2 DEF TypeInv, TypeOK
  <2>4. /\ pc'[r] = "app" /\ rc'[r] = hwsplit[r].rc /\ outbox'[r].call = ncalls[r]
        /\ outbox'[r].result = hwsplit[r]
        /\ \A m \in Ranks \ {r} : pc'[m] = pc[m] /\ rc'[m] = rc[m] /\ outbox'[m] = outbox[m]
    BY <1>0, <1>6, <2>1 DEF TypeInv, TypeOK
  <2>5. \A m \in Ranks \ {r} : Untouched(m)
    BY <1>1, <1>6, <2>4 DEF Untouched
  <2>6. AtRoot(r)'
    <3>1. /\ Done(r)' = ncalls[r] /\ Refused(r)' /\ Opening(r)' /\ ~Sent(r)'
          /\ Verdict(r)' = hwsplit[r].rc
      <4>1. Done(r)' = ncalls[r] /\ Opening(r)' /\ ~Sent(r)'
        BY <1>1, <2>4 DEF Done, Opening, Sent
      <4>2. Refused(r)'
        BY <1>0, <1>3, <1>6, <2>4, <4>1 DEF Refused
      <4>. QED
        BY <2>4, <4>1, <4>2 DEF Verdict
    <3>2. RootInv(r)'
      BY <1>0, <1>1, <2>2, <2>4, <3>1 DEF RootInv
    <3>3. VerdictInv(r)'
      BY <1>2, <1>3, <1>4, <2>4, <3>1 DEF VerdictInv
    <3>4. ResultInv(r)'
      BY <2>4, <3>1 DEF ResultInv
    <3>5. ASSUME NEW m \in Group(r) \ {r} PROVE MemberInv(r, m)'
      <4>1. pc'[m] = "recv" /\ ncalls'[m] = Done(r)'
        BY <1>1, <1>2, <1>3, <2>4, <3>1
      <4>. QED
        BY <2>4, <3>1, <4>1 DEF MemberInv
    <3>. QED
      BY <1>4, <3>2, <3>3, <3>4, <3>5 DEF AtRoot
  <2>. QED
    BY <1>5, <2>3, <2>4, <2>5, <2>6
<1>7. CASE /\ hwsplit[r].rc = "SUCCESS"
           /\ outbox' = [outbox EXCEPT ![r] = [call |-> ncalls[r], result |-> Scattered(r)]]
           /\ Takes(r, Scattered(r), 0)
  <2>. DEFINE sent == Scattered(r)
  <2>1. /\ pc' = [pc EXCEPT ![r] = "group"] /\ rc' = rc
        /\ colorp' = [colorp EXCEPT ![r] = sent.colors[0]]
        /\ hwpool' = [hwpool EXCEPT ![r] = sent.hwpools[0]]
    BY <1>7 DEF Takes, Goto
  <2>2. /\ SentFits(r, sent) /\ sent.rc = "SUCCESS"
        /\ \A i \in 0..(NMembers(r) - 1) :
              sent.colors[i] \in Ranks \cup Colors /\ sent.hwpools[i] \in HwPools
    <3>1. SplitFits(BasePool(r), Primary(r), NMembers(r), GroupColors(r), hwsplit[r])
      <4>1. Returns("ERR_SPLIT").rc # "SUCCESS" /\ Returns("ERR_INVLD_ARG").rc # "SUCCESS"
        BY DEF Returns
      <4>. QED
        BY <1>3, <1>7, <4>1 DEF RootHasSplit
    <3>2. \A m \in Group(r) : args[m].color \in Colors
      <4>1. \A m \in Group(r) : pc[m] \in Calling
        BY <1>1, <1>3 DEF Calling
      <4>. QED
        BY <1>2, <4>1 DEF IInv, SideInv
    <3>. QED
      BY <3>1, <3>2, ScatterFits
  <2>3. 0 \in 0..(NMembers(r) - 1) /\ group_rank(r) = 0
    <3>1. NMembers(r) \in Nat \ {0} /\ group_rank(s_root(r)) = 0
      BY Members DEF IInv
    <3>. QED
      BY <1>2, <3>1
  <2>. HIDE DEF sent
  <2>4. TypeInv'
    <3>1. pc' \in [Ranks -> {"intrinsic", "app", "gather", "barrier", "bcast", "recv", "group",
                         "comm_split", "threw", "failed", "aborted"}]
      BY <1>0, <2>1 DEF TypeInv, TypeOK
    <3>2. colorp' \in [Ranks -> Ranks \cup Colors] /\ hwpool' \in [Ranks -> HwPools]
      BY <1>0, <2>1, <2>2, <2>3 DEF TypeInv, TypeOK
    <3>. QED
      BY <1>0, <1>1, <1>7, <2>1, <3>1, <3>2 DEF TypeInv, TypeOK
  <2>5. /\ pc'[r] = "group" /\ colorp'[r] = sent.colors[0] /\ hwpool'[r] = sent.hwpools[0]
        /\ outbox'[r].call = ncalls[r] /\ outbox'[r].result = sent
        /\ \A m \in Ranks \ {r} : /\ pc'[m] = pc[m] /\ outbox'[m] = outbox[m]
                                  /\ colorp'[m] = colorp[m] /\ hwpool'[m] = hwpool[m]
    BY <1>0, <1>7, <2>1 DEF TypeInv, TypeOK, sent
  <2>6. \A m \in Ranks \ {r} : Untouched(m)
    BY <1>1, <2>1, <2>5 DEF Untouched
  <2>7. AtRoot(r)'
    <3>1. ~Opening(r)' /\ Sent(r)'
      BY <2>5 DEF Opening, Sent
    <3>2. RootInv(r)'
      BY <1>0, <1>1, <2>2, <2>5, <3>1 DEF RootInv
    <3>3. ASSUME NEW m \in Group(r) \ {r} PROVE MemberInv(r, m)' /\ pc'[m] = "recv"
      <4>1. pc'[m] = "recv" /\ ncalls'[m] = ncalls'[r]
        BY <1>1, <1>2, <1>3, <2>5
      <4>. QED
        BY <2>5, <3>1, <4>1 DEF MemberInv
    <3>4. VerdictInv(r)'
      BY <1>4, <2>5, <3>3 DEF VerdictInv
    <3>5. SentFits(r, outbox[r].result)'
      BY <1>4, <2>2, <2>5 DEF SentFits, DevicesFit, ColorsFit
    <3>6. HasPart(r, r)'
      BY <1>2, <1>4, <2>3, <2>5 DEF HasPart
    <3>7. ResultInv(r)'
      BY <1>4, <2>5, <3>3, <3>5, <3>6 DEF ResultInv
    <3>. QED
      BY <1>4, <3>2, <3>3, <3>4, <3>7 DEF AtRoot
  <2>. QED
    BY <1>5, <2>4, <2>5, <2>6, <2>7
<1>8. CASE JobAborts /\ UNCHANGED <<outbox, colorp, hwpool>>
  <2>1. TypeInv'
    BY <1>0, <1>1, <1>8 DEF JobAborts, TypeInv, TypeOK
  <2>. QED
    BY <1>1, <1>8, <2>1, AbortInv DEF JobAborts
<1>. QED
  BY <1>6, <1>7, <1>8 DEF RootSends

LEMMA ReceiveInv == ASSUME IInv, NEW r \in Ranks, Receive(r) PROVE IInv'
<1>0. TypeInv /\ ncalls[r] \in Nat
  BY DEF IInv, TypeInv, TypeOK
<1>1. pc[r] = "recv" /\ UNCHANGED <<scope, bound, top, ncalls, args, hwsplit, outbox>>
  BY DEF Receive
<1>2. PICK q \in Ranks :
         /\ q = s_root(r) /\ q \in Group(q) /\ Group(r) = Group(q) /\ IsRoot(q)
         /\ r # q /\ Group(q) \subseteq Ranks /\ r \in Group(q)
         /\ \A m \in Group(q) : Group(m) = Group(q)
         /\ RootInv(q) /\ VerdictInv(q) /\ ResultInv(q)
         /\ \A m \in Group(q) \ {q} : MemberInv(q, m)
  BY <1>1, Phases
<1>3. /\ outbox[q].call = ncalls[r]
      /\ IF outbox[q].result.rc # "SUCCESS"
         THEN Return(r, outbox[q].result.rc) /\ UNCHANGED <<colorp, hwpool>>
         ELSE Takes(r, outbox[q].result, group_rank(r))
  BY <1>2 DEF Receive
<1>4. \A m \in Ranks \ {r} : pc'[m] = pc[m] /\ rc'[m] = rc[m]
                             /\ colorp'[m] = colorp[m] /\ hwpool'[m] = hwpool[m]
  BY <1>0, <1>3 DEF Return, Takes, Goto, TypeInv, TypeOK
<1>5. \A m \in Ranks \ {r} : Untouched(m)
  BY <1>1, <1>4 DEF Untouched
<1>6. /\ Group(q)' = Group(q) /\ NMembers(q)' = NMembers(q)
      /\ \A m \in Group(q) : group_rank(m)' = group_rank(m)
      /\ BasePool(q)' = BasePool(q) /\ GroupColors(q)' = GroupColors(q) /\ Primary(q)' = Primary(q)
  BY <1>1, GroupFrame, SplitFrame DEF IInv
<1>7. /\ pc'[q] = pc[q] /\ Done(q)' = Done(q) /\ (Refused(q)' <=> Refused(q))
      /\ (Opening(q)' <=> Opening(q)) /\ (Sent(q)' <=> Sent(q)) /\ Verdict(q)' = Verdict(q)
  <2>1. pc'[q] = pc[q]
    BY <1>2, <1>4
  <2>. QED
    BY <1>1, <2>1 DEF Done, Refused, Opening, Sent, Verdict
<1>8. RootInv(q)'
  BY <1>1, <1>2, <1>7 DEF RootInv
<1>9. \A m \in Group(q) \ {q, r} : MemberInv(q, m)'
  BY <1>1, <1>2, <1>4, <1>7 DEF MemberInv
<1>10. ncalls[q] \in Nat /\ MemberInv(q, r) /\ scope[r].depth \in Nat /\ ncalls[r] # 0
  BY <1>0, <1>1, <1>2 DEF IInv, TypeInv, TypeOK, Scopes, GroupInv, RankInv, LocalInv, Calling
<1>11. (Opening(q) /\ Refused(q) /\ ncalls[r] = Done(q)) \/ Sent(q)
  <2>1. pc[q] # "aborted"
    BY <1>1 DEF IInv, SideInv
  <2>2. pc[q] \notin {"barrier", "threw"}
    BY <1>1, <1>10 DEF MemberInv
  <2>3. pc[q] # "bcast"
    <3>1. ASSUME pc[q] = "bcast" PROVE FALSE
      <4>1. outbox[q].call < ncalls[q] /\ ncalls[q] = ncalls[r]
        BY <1>2, <1>10, <3>1 DEF RootInv, MemberInv
      <4>. QED
        BY <1>3, <1>10, <4>1
    <3>. QED
      BY <3>1
  <2>4. pc[q] \in {"intrinsic", "app", "gather", "barrier", "bcast", "recv", "group",
                   "comm_split", "threw", "failed", "aborted"} /\ pc[q] # "recv"
    BY <1>0, <1>2 DEF TypeInv, TypeOK, RootInv
  <2>5. Opening(q) \/ Sent(q)
    BY <1>10, <2>1, <2>2, <2>3, <2>4 DEF Opening, Sent
  <2>. QED
    BY <1>1, <1>10, <2>5 DEF MemberInv
<1>12. ASSUME pc'[r] \in {"app", "group"}, TypeInv',
              VerdictInv(q)', ResultInv(q)', MemberInv(q, r)'
       PROVE  IInv'
  <2>1. LocalInv(r)'
    <3>1. Group(r)' = Group(r) /\ scope'[r] = scope[r] /\ LocalInv(r) /\ scope[r].depth \in Nat
      BY <1>0, <1>1 DEF Group, IInv, GroupInv, RankInv, TypeInv, TypeOK, Scopes
    <3>. QED
      BY <1>1, <1>12, <3>1 DEF LocalInv, make_intrinsic_group, Calling
  <2>2. AtRoot(q)'
    <3>1. \A m \in Group(q) \ {q} : MemberInv(q, m)'
      BY <1>9, <1>12
    <3>. QED
      BY <1>6, <1>8, <1>12, <3>1 DEF AtRoot
  <2>3. GroupInv' /\ \A m \in Ranks : AtRoot(m)' /\ (IsRoot(m)' <=> IsRoot(m))
    <3>1. scope'[r].members = scope[r].members /\ scope'[r].depth = scope[r].depth
      BY <1>1
    <3>. QED
      BY <1>2, <1>5, <2>1, <2>2, <3>1, OneMoves
  <2>4. SideInv'
    <3>1. \A m, n \in Ranks : pc[m] = "aborted" => pc[n] = "aborted"
      BY DEF IInv, SideInv
    <3>2. \A m, n \in Ranks : pc'[m] = "aborted" => pc'[n] = "aborted"
      BY <1>1, <1>4, <1>12, <3>1
    <3>3. \A m \in Ranks : pc'[m] \in Calling => pc[m] \in Calling
      BY <1>1, <1>4, <1>12 DEF Calling
    <3>. QED
      BY <1>1, <2>3, <3>2, <3>3 DEF IInv, SideInv
  <2>. QED
    BY <1>12, <2>3, <2>4 DEF IInv
<1>13. CASE outbox[q].result.rc # "SUCCESS"
  <2>1. /\ pc' = [pc EXCEPT ![r] = "app"] /\ rc' = [rc EXCEPT ![r] = outbox[q].result.rc]
        /\ UNCHANGED <<colorp, hwpool>>
    BY <1>3, <1>13 DEF Return, Goto
  <2>2. outbox[q].result.rc \in {"ERR_SPLIT", "ERR_INVLD_ARG"}
    BY <1>2, <1>3, <1>10, <1>13 DEF RootInv
  <2>3. TypeInv'
    <3>1. pc' \in [Ranks -> {"intrinsic", "app", "gather", "barrier", "bcast", "recv", "group",
                         "comm_split", "threw", "failed", "aborted"}]
      BY <1>0, <2>1 DEF TypeInv, TypeOK
    <3>2. rc' \in [Ranks -> {"SUCCESS", "ERR_SPLIT", "ERR_INVLD_ARG", "RES_UNAVAILABLE",
                         "ERR_RPC", "ERR_NOT_SUPPORTED"}]
      BY <1>0, <2>1, <2>2 DEF TypeInv, TypeOK
    <3>. QED
      BY <1>0, <1>1, <2>1, <3>1, <3>2 DEF TypeInv, TypeOK
  <2>4. pc'[r] = "app" /\ rc'[r] = outbox[q].result.rc
    BY <1>0, <2>1 DEF TypeInv, TypeOK
  <2>5. ~Sent(q) /\ Opening(q) /\ Refused(q) /\ ncalls[r] = Done(q)
    BY <1>2, <1>11, <1>13 DEF RootInv
  <2>6. VerdictInv(q)'
    <3>1. rc'[r] = Verdict(q)'
      BY <1>7, <2>4, <2>5 DEF Verdict
    <3>. QED
      BY <1>2, <1>4, <1>6, <1>7, <3>1 DEF VerdictInv
  <2>7. ResultInv(q)'
    BY <1>7, <2>5 DEF ResultInv, Opening
  <2>8. MemberInv(q, r)'
    BY <1>1, <1>7, <2>4, <2>5 DEF MemberInv, Opening
  <2>. QED
    BY <1>12, <2>3, <2>4, <2>6, <2>7, <2>8
<1>14. CASE outbox[q].result.rc = "SUCCESS"
  <2>. DEFINE sent == outbox[q].result
              i == group_rank(r)
  <2>1. /\ pc' = [pc EXCEPT ![r] = "group"] /\ rc' = rc
        /\ colorp' = [colorp EXCEPT ![r] = sent.colors[i]]
        /\ hwpool' = [hwpool EXCEPT ![r] = sent.hwpools[i]]
    BY <1>3, <1>14 DEF Takes, Goto
  <2>2. Sent(q) /\ ~Opening(q) /\ ncalls[r] = ncalls[q]
    <3>1. Sent(q)
      BY <1>11, <1>14 DEF Refused
    <3>. QED
      BY <1>10, <3>1 DEF Sent, Opening, MemberInv
  <2>3. SentFits(q, sent) /\ i \in 0..(NMembers(q) - 1)
    <3>1. \A m \in Group(q) : group_rank(m) \in 0..(NMembers(q) - 1)
      BY Members DEF IInv
    <3>. QED
      BY <1>2, <2>2, <3>1 DEF ResultInv
  <2>4. sent.colors[i] \in Ranks \cup Colors /\ sent.hwpools[i] \in HwPools
    <3>. DEFINE I == 0..(NMembers(q) - 1)
    <3>1. I \subseteq Ranks
      <4>1. NMembers(q) \in Nat /\ NMembers(q) <= NRanks /\ NRanks \in Nat
        BY Members, SplitAssumption DEF IInv
      <4>. QED
        BY <4>1 DEF Ranks
    <3>2. sent.colors \in [I -> I] \/ sent.colors \in [I -> {c \in Colors : c < 0}]
      BY <2>3 DEF SentFits, ColorsFit
    <3>3. sent.hwpools \in [I -> HwPools]
      BY <2>3 DEF SentFits
    <3>. HIDE DEF I, sent, i
    <3>4. i \in I
      BY <2>3 DEF I
    <3>. QED
      BY <3>1, <3>2, <3>3, <3>4
  <2>. HIDE DEF sent, i
  <2>5. TypeInv'
    <3>1. pc' \in [Ranks -> {"intrinsic", "app", "gather", "barrier", "bcast", "recv", "group",
                         "comm_split", "threw", "failed", "aborted"}]
      BY <1>0, <2>1 DEF TypeInv, TypeOK
    <3>2. colorp' \in [Ranks -> Ranks \cup Colors] /\ hwpool' \in [Ranks -> HwPools]
      BY <1>0, <2>1, <2>4 DEF TypeInv, TypeOK
    <3>. QED
      BY <1>0, <1>1, <2>1, <3>1, <3>2 DEF TypeInv, TypeOK
  <2>6. pc'[r] = "group" /\ colorp'[r] = sent.colors[i] /\ hwpool'[r] = sent.hwpools[i]
    BY <1>0, <2>1 DEF TypeInv, TypeOK
  <2>7. VerdictInv(q)'
    BY <1>2, <1>4, <1>6, <1>7, <2>6 DEF VerdictInv
  <2>8. MemberInv(q, r)'
    <3>1. ~Opening(q)' /\ pc'[q] \notin {"barrier", "threw", "bcast"}
      BY <1>7, <2>2 DEF Sent
    <3>. QED
      BY <1>1, <2>2, <2>6, <3>1 DEF MemberInv
  <2>9. ResultInv(q)'
    <3>1. SentFits(q, outbox[q].result)'
      <4>1. outbox'[q] = outbox[q]
        BY <1>1
      <4>2. SentFits(q, outbox[q].result)' <=> SentFits(q, outbox[q].result)
        BY <1>6, <4>1 DEF SentFits, DevicesFit, ColorsFit
      <4>. QED
        BY <2>3, <4>2 DEF sent
    <3>2. ASSUME NEW m \in Group(q), pc'[m] \in {"group", "comm_split", "failed"}
          PROVE  HasPart(q, m)'
      <4>1. CASE m = r
        BY <1>1, <1>2, <1>6, <2>6, <4>1 DEF HasPart, sent, i
      <4>2. CASE m # r
        <5>1. HasPart(q, m)
          BY <1>2, <1>4, <2>2, <3>2, <4>2 DEF ResultInv
        <5>. QED
          BY <1>1, <1>2, <1>4, <1>6, <4>2, <5>1 DEF HasPart
      <4>. QED
        BY <4>1, <4>2
    <3>3. pc'[q] \notin {"barrier", "bcast"}
      BY <1>7, <2>2 DEF Sent
    <3>. QED
      BY <1>6, <3>1, <3>2, <3>3 DEF ResultInv
  <2>. QED
    BY <1>12, <2>5, <2>6, <2>7, <2>8, <2>9
<1>. QED
  BY <1>13, <1>14

LEMMA MakeChildGroupInv == ASSUME IInv, NEW r \in Ranks, MakeChildGroup(r) PROVE IInv'
<1>0. TypeInv /\ ncalls[r] \in Nat
  BY DEF IInv, TypeInv, TypeOK
<1>1. /\ pc[r] = "group" /\ UNCHANGED <<scope, bound, top, ncalls, args, hwsplit, outbox, colorp, hwpool>>
      /\ \/ pc' = [pc EXCEPT ![r] = "comm_split"] /\ rc' = rc
         \/ pc' = [pc EXCEPT ![r] = "failed"] /\ rc' = [rc EXCEPT ![r] = "RES_UNAVAILABLE"]
  BY DEF MakeChildGroup, Goto
<1>2. PICK q \in Ranks :
         /\ q = s_root(r) /\ q \in Group(q) /\ Group(r) = Group(q)
         /\ Group(q) \subseteq Ranks /\ r \in Group(q)
         /\ RootInv(q) /\ VerdictInv(q) /\ ResultInv(q) /\ Sent(q)
         /\ \A m \in Group(q) \ {q} : MemberInv(q, m)
  BY <1>1, Phases
<1>3. /\ pc'[r] \in {"comm_split", "failed"}
      /\ \A m \in Ranks \ {r} : pc'[m] = pc[m] /\ rc'[m] = rc[m]
  BY <1>0, <1>1 DEF TypeInv, TypeOK
<1>4. \A m \in Ranks \ {r} : Untouched(m)
  BY <1>1, <1>3 DEF Untouched
<1>5. /\ Group(q)' = Group(q) /\ NMembers(q)' = NMembers(q)
      /\ \A m \in Group(q) : group_rank(m)' = group_rank(m)
      /\ BasePool(q)' = BasePool(q) /\ GroupColors(q)' = GroupColors(q) /\ Primary(q)' = Primary(q)
  BY <1>1, GroupFrame, SplitFrame DEF IInv
<1>6. /\ scope[r].depth \in Nat /\ scope[r].depth < ncalls[r] /\ LocalInv(r)
      /\ scope[r].origin # EmptyPool
  <2>1. LocalInv(r)
    BY DEF IInv, GroupInv, RankInv
  <2>2. scope[r].depth \in Nat
    BY <1>0 DEF TypeInv, TypeOK, Scopes
  <2>. QED
    BY <1>1, <2>1, <2>2 DEF LocalInv, Calling
<1>7. Sent(q)' /\ ~Opening(q)' /\ pc'[q] \notin {"barrier", "threw", "bcast", "recv", "gather"}
  <2>1. CASE q = r
    <3>1. ncalls'[q] > 0 /\ ncalls'[q] # 0 /\ pc'[q] \in {"comm_split", "failed"}
      BY <1>0, <1>1, <1>3, <1>6, <2>1
    <3>. QED
      BY <3>1 DEF Sent, Opening
  <2>2. CASE q # r
    BY <1>1, <1>2, <1>3, <2>2 DEF Sent, Opening
  <2>. QED
    BY <2>1, <2>2
<1>8. TypeInv'
  <2>1. pc' \in [Ranks -> {"intrinsic", "app", "gather", "barrier", "bcast", "recv", "group",
                         "comm_split", "threw", "failed", "aborted"}]
    BY <1>0, <1>1 DEF TypeInv, TypeOK
  <2>2. rc' \in [Ranks -> {"SUCCESS", "ERR_SPLIT", "ERR_INVLD_ARG", "RES_UNAVAILABLE",
                         "ERR_RPC", "ERR_NOT_SUPPORTED"}]
    BY <1>0, <1>1 DEF TypeInv, TypeOK
  <2>. QED
    BY <1>0, <1>1, <2>1, <2>2 DEF TypeInv, TypeOK
<1>9. LocalInv(r)'
  <2>1. Group(r)' = Group(r)
    BY <1>1 DEF Group
  <2>. QED
    BY <1>1, <1>3, <1>6, <2>1 DEF LocalInv, make_intrinsic_group
<1>10. AtRoot(q)'
  <2>1. RootInv(q)'
    BY <1>1, <1>2, <1>7 DEF RootInv
  <2>2. ASSUME NEW m \in Group(q) PROVE pc'[m] # "app"
    <3>1. pc[m] # "app"
      <4>1. CASE m = q
        BY <1>2, <4>1 DEF Sent
      <4>2. CASE m # q
        BY <1>2, <4>2 DEF MemberInv
      <4>. QED
        BY <4>1, <4>2
    <3>. QED
      BY <1>2, <1>3, <3>1
  <2>3. VerdictInv(q)'
    BY <1>5, <2>2 DEF VerdictInv
  <2>4. ASSUME NEW m \in Group(q) \ {q} PROVE MemberInv(q, m)'
    <3>1. MemberInv(q, m)
      BY <1>2
    <3>2. pc'[m] \in {"recv", "group", "comm_split", "failed"} /\ ncalls'[m] = ncalls'[q]
      BY <1>1, <1>2, <1>3, <3>1 DEF MemberInv
    <3>. QED
      BY <1>7, <3>2 DEF MemberInv
  <2>5. ResultInv(q)'
    <3>1. SentFits(q, outbox[q].result)'
      <4>1. outbox'[q] = outbox[q]
        BY <1>1
      <4>2. SentFits(q, outbox[q].result)' <=> SentFits(q, outbox[q].result)
        BY <1>5, <4>1 DEF SentFits, DevicesFit, ColorsFit
      <4>. QED
        BY <1>2, <4>2 DEF ResultInv
    <3>2. ASSUME NEW m \in Group(q), pc'[m] \in {"group", "comm_split", "failed"}
          PROVE  HasPart(q, m)'
      <4>1. HasPart(q, m)
        BY <1>1, <1>2, <1>3, <3>2 DEF ResultInv
      <4>. QED
        BY <1>1, <1>5, <4>1 DEF HasPart
    <3>. QED
      BY <1>5, <1>7, <3>1, <3>2 DEF ResultInv
  <2>. QED
    BY <1>5, <2>1, <2>3, <2>4, <2>5 DEF AtRoot
<1>11. GroupInv' /\ \A m \in Ranks : AtRoot(m)' /\ (IsRoot(m)' <=> IsRoot(m))
  <2>1. scope'[r].members = scope[r].members /\ scope'[r].depth = scope[r].depth
    BY <1>1
  <2>. QED
    BY <1>2, <1>4, <1>9, <1>10, <2>1, OneMoves
<1>12. SideInv'
  <2>1. \A m, n \in Ranks : pc[m] = "aborted" => pc[n] = "aborted"
    BY DEF IInv, SideInv
  <2>2. \A m, n \in Ranks : pc'[m] = "aborted" => pc'[n] = "aborted"
    BY <1>1, <1>3, <2>1
  <2>3. \A m \in Ranks : pc'[m] \in Calling => pc[m] \in Calling
    BY <1>1, <1>3 DEF Calling
  <2>. QED
    BY <1>1, <1>11, <2>2, <2>3 DEF IInv, SideInv
<1>. QED
  BY <1>8, <1>11, <1>12 DEF IInv

(* What the members of a group that has come to MPI_Comm_split hold.       *)
LEMMA BeforeCommSplit ==
    ASSUME IInv, NEW r \in Ranks, IsRoot(r), \A m \in Group(r) : pc[m] = "comm_split"
    PROVE  /\ r \in Group(r) /\ Group(r) \subseteq Ranks /\ RootInv(r) /\ Sent(r)
           /\ \A m \in Group(r) : Group(m) = Group(r) /\ \A n \in Group(r) : scope[m].depth = scope[n].depth
           /\ \A m \in Group(r) : ncalls[m] = ncalls[r] /\ r <= m /\ (IsRoot(m) <=> m = r)
           /\ SentFits(r, outbox[r].result)
           /\ \A m \in Group(r) : HasPart(r, m) /\ group_rank(m) \in 0..(NMembers(r) - 1)
           /\ \A m, n \in Group(r) : group_rank(m) = group_rank(n) => m = n
           /\ \A i \in 0..(NMembers(r) - 1) : \E m \in Group(r) : group_rank(m) = i
           /\ (\A m \in Group(r) : colorp[m] >= 0) => ColorsFit(Primary(r), NMembers(r), outbox[r].result)
<1>1. PICK q \in Ranks :
         /\ q = s_root(r) /\ q \in Group(q) /\ Group(r) = Group(q) /\ r = q
         /\ Group(q) \subseteq Ranks
         /\ RootInv(q) /\ VerdictInv(q) /\ ResultInv(q)
         /\ \A m \in Group(q) \ {q} : MemberInv(q, m)
         /\ \A m \in Group(q) : Group(m) = Group(q)
  BY Phases
<1>2. Sent(r)
  BY <1>1 DEF Sent
<1>3. \A m \in Group(r) : ncalls[m] = ncalls[r]
  BY <1>1, <1>2 DEF MemberInv
<1>4. \A m \in Group(r) : r <= m /\ (IsRoot(m) <=> m = r)
  <2>1. /\ \A m \in Group(r) : s_root(r) <= m /\ (IsRoot(m) <=> m = s_root(r))
    BY Roots DEF IInv
  <2>. QED
    BY <1>1, <2>1
<1>5. SentFits(r, outbox[r].result) /\ \A m \in Group(r) : HasPart(r, m)
  BY <1>1, <1>2 DEF ResultInv
<1>6. /\ \A m \in Group(r) : group_rank(m) \in 0..(NMembers(r) - 1)
      /\ \A m, n \in Group(r) : group_rank(m) = group_rank(n) => m = n
      /\ \A i \in 0..(NMembers(r) - 1) : \E m \in Group(r) : group_rank(m) = i
  BY Members DEF IInv
<1>7. ASSUME \A m \in Group(r) : colorp[m] >= 0
      PROVE  ColorsFit(Primary(r), NMembers(r), outbox[r].result)
  <2>1. colorp[r] = outbox[r].result.colors[group_rank(r)] /\ group_rank(r) \in 0..(NMembers(r) - 1)
    BY <1>1, <1>5, <1>6 DEF HasPart
  <2>2. colorp[r] >= 0
    BY <1>1, <1>7
  <2>3. ASSUME outbox[r].result.colors \in [0..(NMembers(r) - 1) -> {c \in Colors : c < 0}]
        PROVE  FALSE
    <3>1. colorp[r] \in Colors /\ colorp[r] < 0
      BY <2>1, <2>3
    <3>2. colorp[r] \in Int
      BY <3>1, SplitAssumption
    <3>. QED
      BY <2>2, <3>1, <3>2
  <2>. QED
    BY <1>5, <2>3 DEF SentFits
<1>8. \A m, n \in Group(r) : scope[m].depth = scope[n].depth
  BY DEF IInv, GroupInv, RankInv
<1>. QED
  BY <1>1, <1>2, <1>3, <1>4, <1>5, <1>6, <1>7, <1>8

LEMMA CommSplitInv == ASSUME IInv, NEW r \in Ranks, CommSplit(r) PROVE IInv'
<1>. DEFINE G == Group(r)
            child(m) == {n \in Group(r) : colorp[n] = colorp[m]}
<1>0. TypeInv
  BY DEF IInv
<1>1. /\ IsRoot(r) /\ \A m \in G : pc[m] = "comm_split"
      /\ UNCHANGED <<bound, ncalls, args, hwsplit, outbox, colorp, hwpool>>
  BY DEF CommSplit
<1>2. /\ r \in G /\ G \subseteq Ranks /\ RootInv(r) /\ Sent(r)
      /\ \A m \in G : Group(m) = G /\ \A n \in G : scope[m].depth = scope[n].depth
      /\ \A m \in G : ncalls[m] = ncalls[r] /\ r <= m /\ (IsRoot(m) <=> m = r)
      /\ \A m \in G : HasPart(r, m) /\ group_rank(m) \in 0..(NMembers(r) - 1)
      /\ (\A m \in G : colorp[m] >= 0) => ColorsFit(Primary(r), NMembers(r), outbox[r].result)
  BY <1>1, BeforeCommSplit
<1>3. CASE \E m \in Group(r) : comm_color(m) < 0
  <2>1. JobAborts /\ UNCHANGED <<scope, top>>
    BY <1>3 DEF CommSplit
  <2>2. TypeInv'
    BY <1>0, <1>1, <2>1 DEF JobAborts, TypeInv, TypeOK
  <2>. QED
    BY <1>1, <2>1, <2>2, AbortInv DEF JobAborts
<1>4. CASE ~\E m \in Group(r) : comm_color(m) < 0
  <2>1. /\ pc' = [m \in Ranks |-> IF m \in G THEN "app" ELSE pc[m]]
        /\ rc' = [m \in Ranks |-> IF m \in G THEN "SUCCESS" ELSE rc[m]]
        /\ scope' = [m \in Ranks |->
                IF m \in G
                THEN [members |-> child(m), hwpool |-> hwpool[m], depth |-> scope[m].depth + 1,
                      origin |-> scope[m].origin]
                ELSE scope[m]]
        /\ top' = [m \in Ranks |-> IF m \in G THEN bound[m] ELSE top[m]]
    BY <1>4 DEF CommSplit, comm_color
  <2>2. \A m \in Ranks : /\ scope[m] \in Scopes /\ scope[m].depth \in Nat /\ ncalls[m] \in Nat
                         /\ ncalls[m] <= MaxCalls /\ hwpool[m] \in HwPools /\ colorp[m] \in Int
                         /\ scope[m].origin \in HwPools
    <3>1. Ranks \cup Colors \subseteq Int
      BY RanksFinite, SplitAssumption
    <3>. QED
      BY <1>0, <3>1, SplitAssumption DEF TypeInv, TypeOK, Scopes
  <2>3. \A m \in G : colorp[m] >= 0
    BY <1>2, <1>4, <2>2 DEF comm_color
  <2>4. \A m \in G : hwpool[m].cpuset # {}
    <3>1. ColorsFit(Primary(r), NMembers(r), outbox[r].result)
      BY <1>2, <2>3
    <3>2. \A t \in 0..(NMembers(r) - 1) : outbox[r].result.hwpools[t].cpuset # {}
      BY <3>1 DEF ColorsFit
    <3>. QED
      BY <1>2, <3>2 DEF HasPart
  <2>5. \A m \in G : /\ scope'[m].members = child(m) /\ scope'[m].hwpool = hwpool[m]
                     /\ scope'[m].depth = scope[m].depth + 1 /\ scope'[m].origin = scope[m].origin
                     /\ pc'[m] = "app" /\ rc'[m] = "SUCCESS"
    BY <1>2, <2>1
  <2>6. \A m \in Ranks \ G : Untouched(m)
    BY <1>1, <2>1 DEF Untouched
  <2>7. /\ \A m \in G : Group(m)' = child(m) /\ m \in child(m) /\ child(m) \subseteq G
        /\ \A m \in Ranks \ G : Group(m)' = Group(m)
    BY <2>1, <2>5 DEF Group
  <2>8. \A m \in G : LocalInv(m) /\ scope[m].depth < ncalls[m] /\ scope[m].origin # EmptyPool
    BY <1>1, <1>2 DEF IInv, GroupInv, RankInv, LocalInv, Calling
  <2>9. \A m \in Ranks \ G : RankInv(m) /\ Group(m) \cap G = {} /\ Group(m) \subseteq Ranks
    BY <1>2 DEF IInv, GroupInv, RankInv
  <2>. HIDE DEF G, child
  <2>10. TypeInv'
    <3>1. ASSUME NEW m \in G
          PROVE  [members |-> child(m), hwpool |-> hwpool[m], depth |-> scope[m].depth + 1,
                  origin |-> scope[m].origin] \in Scopes
      <4>1. scope[m].depth + 1 \in 0..MaxCalls /\ child(m) \in SUBSET Ranks
        BY <1>2, <2>2, <2>7, <2>8, SplitAssumption
      <4>. QED
        BY <1>2, <2>2, <4>1 DEF Scopes
    <3>2. scope' \in [Ranks -> Scopes]
      BY <2>1, <2>2, <3>1
    <3>3. pc' \in [Ranks -> {"intrinsic", "app", "gather", "barrier", "bcast", "recv", "group",
                         "comm_split", "threw", "failed", "aborted"}]
      BY <1>0, <2>1 DEF TypeInv, TypeOK
    <3>4. rc' \in [Ranks -> {"SUCCESS", "ERR_SPLIT", "ERR_INVLD_ARG", "RES_UNAVAILABLE",
                         "ERR_RPC", "ERR_NOT_SUPPORTED"}]
      BY <1>0, <2>1 DEF TypeInv, TypeOK
    <3>5. top' \in [Ranks -> SUBSET PUs]
      BY <1>0, <2>1 DEF TypeInv, TypeOK
    <3>. QED
      BY <1>0, <1>1, <3>2, <3>3, <3>4, <3>5 DEF TypeInv, TypeOK
  <2>11. GroupInv'
    <3>1. ASSUME NEW m \in G PROVE RankInv(m)'
      <4>1. LocalInv(m)'
        <5>1. scope'[m].depth <= ncalls[m] /\ scope'[m].depth # 0
          BY <1>2, <2>2, <2>5, <2>8
        <5>. QED
          BY <1>1, <2>4, <2>5, <2>8, <5>1 DEF LocalInv, Calling
      <4>2. ASSUME NEW n \in child(m) PROVE Group(n)' = Group(m)' /\ scope'[n].depth = scope'[m].depth
        <5>1. n \in G /\ child(n) = child(m)
          BY <2>7 DEF child
        <5>. QED
          BY <1>2, <2>5, <2>7, <5>1
      <4>. QED
        BY <1>2, <2>7, <4>1, <4>2 DEF RankInv
    <3>2. ASSUME NEW m \in Ranks \ G PROVE RankInv(m)'
      <4>1. LocalInv(m)'
        BY <2>6, <2>9, LocalFrame DEF RankInv
      <4>2. \A n \in Group(m) : n \in Ranks \ G /\ Group(n)' = Group(n) /\ scope'[n] = scope[n]
        BY <2>6, <2>7, <2>9 DEF Untouched
      <4>3. scope'[m] = scope[m] /\ Group(m)' = Group(m)
        BY <2>6, <2>7 DEF Untouched
      <4>. QED
        BY <2>9, <4>1, <4>2, <4>3 DEF RankInv
    <3>. QED
      BY <3>1, <3>2 DEF GroupInv
  <2>12. IsRoot(r)'
    <3>1. r \in child(r) /\ \A n \in child(r) : r <= n
      BY <1>2, <2>7
    <3>2. \A n \in child(r) : n \in Int
      <4>1. child(r) \subseteq Ranks
        BY <1>2, <2>7
      <4>2. \A n \in Ranks : n \in Int
        BY RanksFinite
      <4>. QED
        BY <4>1, <4>2
    <3>3. s_root(r)' = CHOOSE m \in child(r) : \A n \in child(r) : m <= n
      BY <1>2, <2>7 DEF s_root
    <3>4. \A m \in child(r) : (\A n \in child(r) : m <= n) => m = r
      BY <3>1, <3>2
    <3>5. s_root(r)' = r
      BY <3>1, <3>3, <3>4
    <3>. QED
      BY <3>5 DEF IsRoot
  <2>13. ASSUME NEW q \in Ranks PROVE AtRoot(q)'
    <3>1. CASE q \in Ranks \ G
      <4>1. \A m \in Group(q) : Untouched(m)
        BY <2>6, <2>9, <3>1
      <4>. QED
        BY <4>1, GroupStutters DEF IInv
    <3>2. CASE q \in G
      <4>1. /\ pc'[q] = "app" /\ ncalls'[q] = ncalls[r] /\ ncalls[r] \in Nat \ {0}
            /\ Done(q)' = ncalls[r] /\ ~Sent(q)' /\ outbox' = outbox
        BY <1>1, <1>2, <2>2, <2>5, <2>8, <3>2 DEF Done, Sent
      <4>2. \/ outbox[q].call = 0
            \/ outbox[q].call = ncalls[r] /\ outbox[q].result.rc = "SUCCESS"
        <5>1. CASE q = r
          BY <1>2, <5>1 DEF RootInv
        <5>2. CASE q # r
          BY <1>2, <3>2, <5>2 DEF IInv, SideInv
        <5>. QED
          BY <5>1, <5>2
      <4>3. ~Refused(q)'
        BY <4>1, <4>2 DEF Refused
      <4>4. RootInv(q)'
        BY <4>1, <4>2 DEF RootInv
      <4>5. VerdictInv(q)'
        BY <2>5, <2>7, <3>2, <4>3 DEF VerdictInv, Verdict
      <4>6. ResultInv(q)'
        BY <4>1 DEF ResultInv
      <4>7. ASSUME NEW m \in Group(q)' PROVE MemberInv(q, m)'
        <5>1. pc'[m] = "app" /\ ncalls'[m] = Done(q)'
          BY <1>1, <1>2, <2>5, <2>7, <3>2, <4>1
        <5>. QED
          BY <4>1, <5>1 DEF MemberInv
      <4>. QED
        BY <4>4, <4>5, <4>6, <4>7 DEF AtRoot
    <3>. QED
      BY <3>1, <3>2
  <2>14. SideInv'
    <3>1. ASSUME NEW m \in Ranks, ~IsRoot(m)' PROVE outbox'[m].call = 0
      <4>1. ~IsRoot(m)
        <5>1. CASE m \in G
          BY <1>2, <2>12, <3>1, <5>1
        <5>2. CASE m \notin G
          BY <2>7, <3>1, <5>2 DEF IsRoot, s_root
        <5>. QED
          BY <5>1, <5>2
      <4>. QED
        BY <1>1, <4>1 DEF IInv, SideInv
    <3>2. \A m \in Ranks : pc[m] # "aborted"
      BY <1>1, <1>2 DEF IInv, SideInv
    <3>3. \A m \in Ranks : pc'[m] # "aborted" /\ (pc'[m] \in Calling => pc[m] \in Calling)
      BY <2>1, <3>2 DEF Calling
    <3>. QED
      BY <1>1, <3>1, <3>3 DEF IInv, SideInv
  <2>. QED
    BY <2>10, <2>11, <2>13, <2>14 DEF IInv
<1>. QED
  BY <1>3, <1>4

-----------------------------------------------------------------------------
(* The invariant holds in every execution, whatever the node, the number   *)
(* of ranks and the sequence of calls: the members of a group agree on who *)
(* they are, are in the same call or one call apart, and what the root has *)
(* computed and sent is a split of the pool that the members have.         *)
THEOREM Invariance == Spec => []IInv
<1>1. Init => IInv
  BY InitInv
<1>2. IInv /\ [Next]_vars => IInv'
  <2>. SUFFICES ASSUME IInv, [Next]_vars PROVE IInv'
    OBVIOUS
  <2>1. CASE Next
    <3>1. PICK r \in Ranks :
             \/ make_intrinsic(r) \/ BindPush(r) \/ (\E nobjs \in Parts : CreateAndBind(r, nobjs))
             \/ qv_split(r) \/ qv_split_at(r) \/ InSplit(r)
      BY <2>1 DEF Next
    <3>2. CASE make_intrinsic(r)
      BY <3>2, MakeIntrinsicInv
    <3>3. CASE BindPush(r)
      BY <3>3, BindPushInv
    <3>4. CASE \E nobjs \in Parts : CreateAndBind(r, nobjs)
      BY <3>4, CreateAndBindInv
    <3>5. CASE qv_split(r) \/ qv_split_at(r)
      BY <3>5, SplitCallInv
    <3>6. CASE RootSplits(r)
      BY <3>6, RootSplitsInv
    <3>7. CASE Barrier(r)
      BY <3>7, BarrierInv
    <3>8. CASE RootSends(r)
      BY <3>8, RootSendsInv
    <3>9. CASE Receive(r)
      BY <3>9, ReceiveInv
    <3>10. CASE MakeChildGroup(r)
      BY <3>10, MakeChildGroupInv
    <3>11. CASE CommSplit(r)
      BY <3>11, CommSplitInv
    <3>. QED
      BY <3>1, <3>2, <3>3, <3>4, <3>5, <3>6, <3>7, <3>8, <3>9, <3>10, <3>11 DEF InSplit
  <2>2. CASE UNCHANGED vars
    <3>1. /\ bound' \in [Ranks -> SUBSET PUs] /\ top' \in [Ranks -> SUBSET PUs]
          /\ \A r \in Ranks : bound'[r] # {}
      BY <2>2 DEF vars, IInv, TypeInv, TypeOK, SideInv
    <3>2. UNCHANGED <<scope, pc, ncalls, args, hwsplit, outbox, colorp, hwpool, rc>>
      BY <2>2 DEF vars
    <3>. QED
      BY <3>1, <3>2, BindInv
  <2>. QED
    BY <2>1, <2>2
<1>. QED
  BY <1>1, <1>2, PTL DEF Spec

(* Every variable keeps its type: a member never takes a part of the       *)
(* result that is not there, and the codes of a split are the ones that    *)
(* m_split returns.                                                        *)
THEOREM TypeCorrect == Spec => []TypeOK
<1>1. IInv => TypeOK
  BY DEF IInv, TypeInv
<1>. QED
  BY <1>1, Invariance, PTL

(* Members that have returned from the same call were told the same.       *)
THEOREM OneVerdict == Spec => []VerdictsAgree
<1>1. IInv => VerdictsAgree
  <2>. SUFFICES ASSUME IInv, NEW r \in Ranks, NEW m \in Group(r), pc[r] = "app", pc[m] = "app"
                PROVE  rc[r] = rc[m]
    BY DEF VerdictsAgree
  <2>1. PICK q \in Ranks : Group(r) = Group(q) /\ r \in Group(q) /\ VerdictInv(q)
    BY Phases
  <2>. QED
    BY <2>1 DEF VerdictInv
<1>. QED
  BY <1>1, Invariance, PTL

-----------------------------------------------------------------------------
(* The two steps that give a rank a scope: the server's answer, and        *)
(* MPI_Comm_split.                                                         *)

Reply(r) == get_intrinsic_hwpool(IScope, {bound[m] : m \in Group(r)})

GetsAnswer(r) ==
    /\ pc[r] = "intrinsic" /\ pc'[r] = "app" /\ Reply(r).rc = "SUCCESS"
    /\ scope'[r].members = scope[r].members /\ scope'[r].depth = scope[r].depth
    /\ scope'[r].hwpool = Reply(r).hwpool /\ scope'[r].origin = Reply(r).hwpool
    /\ \A m \in Ranks \ {r} : scope'[m] = scope[m]

GetChildren(r) ==
    /\ IsRoot(r) /\ \A m \in Group(r) : pc[m] = "comm_split" /\ pc'[m] = "app" /\ colorp[m] >= 0
    /\ \A m \in Group(r) : /\ scope'[m].members = {n \in Group(r) : colorp[n] = colorp[m]}
                           /\ scope'[m].hwpool = hwpool[m] /\ scope'[m].depth = scope[m].depth + 1
                           /\ scope'[m].origin = scope[m].origin
    /\ \A m \in Ranks \ Group(r) : scope'[m] = scope[m]

LEMMA ScopeSteps ==
    ASSUME IInv, Next
    PROVE  \/ scope' = scope /\ \A r \in Ranks : pc'[r] = "intrinsic" => pc[r] = "intrinsic"
           \/ \E r \in Ranks : /\ GetsAnswer(r) \/ GetChildren(r)
                               /\ \A m \in Ranks : pc'[m] = "intrinsic" => pc[m] = "intrinsic"
<1>0. /\ scope \in [Ranks -> Scopes] /\ DOMAIN pc = Ranks
      /\ pc \in [Ranks -> {"intrinsic", "app", "gather", "barrier", "bcast", "recv", "group",
                         "comm_split", "threw", "failed", "aborted"}]
      /\ colorp \in [Ranks -> Int] /\ \A r \in Ranks : Group(r) \subseteq Ranks
  <2>1. Ranks \cup Colors \subseteq Int
    BY RanksFinite, SplitAssumption
  <2>. QED
    BY <2>1 DEF IInv, TypeInv, TypeOK, GroupInv, RankInv
<1>1. PICK r \in Ranks :
         \/ make_intrinsic(r) \/ BindPush(r) \/ (\E nobjs \in Parts : CreateAndBind(r, nobjs))
         \/ qv_split(r) \/ qv_split_at(r) \/ InSplit(r)
  BY DEF Next
<1>2. CASE make_intrinsic(r)
  <2>1. \A m \in Ranks : pc'[m] = "intrinsic" => pc[m] = "intrinsic"
    BY <1>0, <1>2 DEF make_intrinsic, Return, Goto
  <2>2. CASE scope' = scope
    BY <2>1, <2>2
  <2>3. CASE scope' # scope
    <3>1. /\ pc[r] = "intrinsic" /\ Reply(r).rc = "SUCCESS"
          /\ scope' = [scope EXCEPT ![r].hwpool = Reply(r).hwpool, ![r].origin = Reply(r).hwpool]
          /\ pc' = [pc EXCEPT ![r] = "app"]
      BY <1>2, <2>3 DEF make_intrinsic, Reply, pids, Return, Goto
    <3>2. GetsAnswer(r)
      BY <1>0, <3>1 DEF GetsAnswer, Scopes
    <3>. QED
      BY <2>1, <3>2
  <2>. QED
    BY <2>2, <2>3
<1>3. CASE BindPush(r) \/ \E nobjs \in Parts : CreateAndBind(r, nobjs)
  BY <1>3 DEF BindPush, CreateAndBind
<1>4. CASE qv_split(r) \/ qv_split_at(r)
  <2>1. scope' = scope /\ pc' = [pc EXCEPT ![r] = IF IsRoot(r) THEN "gather" ELSE "barrier"]
    BY <1>4 DEF qv_split, qv_split_at, Call, Goto
  <2>. QED
    BY <1>0, <2>1
<1>5. CASE RootSplits(r)
  <2>1. scope' = scope
    BY <1>5 DEF RootSplits
  <2>2. \/ pc' = [pc EXCEPT ![r] = "barrier"] \/ pc' = [pc EXCEPT ![r] = "threw"]
        \/ pc' = [m \in Ranks |-> "aborted"]
    BY <1>5 DEF RootSplits, Goto, JobAborts
  <2>. QED
    BY <1>0, <2>1, <2>2
<1>6. CASE Barrier(r)
  BY <1>0, <1>6 DEF Barrier
<1>7. CASE RootSends(r) \/ Receive(r) \/ MakeChildGroup(r)
  <2>1. scope' = scope
    BY <1>7 DEF RootSends, Receive, MakeChildGroup
  <2>2. \/ pc' = [m \in Ranks |-> "aborted"]
        \/ \E l \in {"app", "group", "comm_split", "failed"} : pc' = [pc EXCEPT ![r] = l]
    BY <1>7 DEF RootSends, Receive, MakeChildGroup, Goto, JobAborts, Return, Takes
  <2>. QED
    BY <1>0, <2>1, <2>2
<1>8. CASE CommSplit(r)
  <2>1. CASE \E m \in Group(r) : comm_color(m) < 0
    <3>1. scope' = scope /\ pc' = [m \in Ranks |-> "aborted"]
      BY <1>8, <2>1 DEF CommSplit, JobAborts
    <3>. QED
      BY <3>1
  <2>2. CASE ~\E m \in Group(r) : comm_color(m) < 0
    <3>1. /\ pc' = [m \in Ranks |-> IF m \in Group(r) THEN "app" ELSE pc[m]]
          /\ scope' = [m \in Ranks |->
                  IF m \in Group(r)
                  THEN [members |-> {n \in Group(r) : colorp[n] = colorp[m]},
                        hwpool |-> hwpool[m], depth |-> scope[m].depth + 1,
                        origin |-> scope[m].origin]
                  ELSE scope[m]]
          /\ IsRoot(r) /\ \A m \in Group(r) : pc[m] = "comm_split"
      BY <1>8, <2>2 DEF CommSplit, comm_color
    <3>2. \A m \in Group(r) : m \in Ranks /\ colorp[m] >= 0
      BY <1>0, <2>2 DEF comm_color
    <3>3. GetChildren(r)
      BY <3>1, <3>2 DEF GetChildren
    <3>. QED
      BY <3>1, <3>3
  <2>. QED
    BY <2>1, <2>2
<1>. QED
  BY <1>1, <1>2, <1>3, <1>4, <1>5, <1>6, <1>7, <1>8 DEF InSplit

(* What the children get, in terms of what their parents have. *)
ChildCpusets(r) ==
    /\ \A m \in Group(r) : hwpool[m].cpuset # {} /\ hwpool[m].cpuset \subseteq Primary(r)
    /\ \A m, n \in Group(r) : colorp[m] = colorp[n] => hwpool[m].cpuset = hwpool[n].cpuset
    /\ \A m, n \in Group(r) : colorp[m] # colorp[n] => hwpool[m].cpuset \cap hwpool[n].cpuset = {}
    /\ "GPU" \notin Types => \A pu \in Primary(r) : \E m \in Group(r) : pu \in scope[m].hwpool.cpuset

ChildDevices(r) ==
    /\ \A m \in Group(r) : \A dev \in hwpool[m].devices :
          \E n \in Group(r) : dev \in scope[n].hwpool.devices
    /\ \A m, n \in Group(r) : m # n => hwpool[m].devices \cap hwpool[n].devices = {}
    /\ \A n \in Group(r) : \A dev \in scope[n].hwpool.devices :
          \E m \in Group(r) : dev \in hwpool[m].devices
    /\ \A m, n \in Group(r) : \A dev \in hwpool[m].devices :
          affinity(dev) \cap hwpool[m].cpuset = {} /\ affinity(dev) \cap hwpool[n].cpuset # {} =>
              hwpool[n].devices # {}

LEMMA ChildrenFit ==
    ASSUME IInv, NEW r \in Ranks, GetChildren(r)
    PROVE  /\ r \in Group(r) /\ Group(r) \subseteq Ranks
           /\ \A m \in Group(r) : /\ Group(m) = Group(r) /\ scope[m].depth = scope[r].depth
                                  /\ scope[m].origin # EmptyPool
           /\ \A m \in Ranks \ Group(r) : Group(m) # Group(r) /\ Group(m) \cap Group(r) = {}
           /\ scope[r].depth \in Nat /\ scope[r].depth < MaxCalls
           /\ scope[r].depth = 0 => Group(r) = make_intrinsic_group(r)
           /\ ChildCpusets(r) /\ ChildDevices(r)
<1>. DEFINE result == outbox[r].result
            I == 0..(NMembers(r) - 1)
<1>1. IsRoot(r) /\ \A m \in Group(r) : pc[m] = "comm_split" /\ colorp[m] >= 0
  BY DEF GetChildren
<1>2. /\ r \in Group(r) /\ Group(r) \subseteq Ranks
      /\ \A m \in Group(r) : Group(m) = Group(r) /\ \A n \in Group(r) : scope[m].depth = scope[n].depth
      /\ SentFits(r, result)
      /\ \A m \in Group(r) : HasPart(r, m) /\ group_rank(m) \in I
      /\ \A m, n \in Group(r) : group_rank(m) = group_rank(n) => m = n
      /\ \A i \in I : \E m \in Group(r) : group_rank(m) = i
      /\ ColorsFit(Primary(r), NMembers(r), result)
  BY <1>1, BeforeCommSplit
<1>3. \A m \in Group(r) : scope[m].origin # EmptyPool
  BY <1>1, <1>2 DEF IInv, GroupInv, RankInv, LocalInv
<1>4. /\ scope[r].depth \in Nat /\ scope[r].depth < MaxCalls
      /\ scope[r].depth = 0 => Group(r) = make_intrinsic_group(r)
  <2>1. scope[r].depth \in Nat /\ ncalls[r] \in Nat /\ ncalls[r] <= MaxCalls
    BY SplitAssumption DEF IInv, TypeInv, TypeOK, Scopes
  <2>2. /\ scope[r].depth < ncalls[r]
        /\ scope[r].depth = 0 => Group(r) = make_intrinsic_group(r)
    BY <1>1, <1>2 DEF IInv, GroupInv, RankInv, LocalInv, Calling
  <2>. QED
    BY <2>1, <2>2, SplitAssumption
<1>5. \A m \in Ranks \ Group(r) : Group(m) # Group(r) /\ Group(m) \cap Group(r) = {}
  BY <1>2 DEF IInv, GroupInv, RankInv
<1>6. \A m \in Group(r) : /\ colorp[m] = result.colors[group_rank(m)]
                          /\ hwpool[m] = result.hwpools[group_rank(m)]
  BY <1>2 DEF HasPart
<1>7. /\ BasePool(r).cpuset = UNION {scope[m].hwpool.cpuset : m \in Group(r)}
      /\ BasePool(r).devices = UNION {scope[m].hwpool.devices : m \in Group(r)}
  BY SplitArguments
<1>8. ChildCpusets(r)
  <2>. HIDE DEF result, I
  <2>1. /\ \A t \in I : result.hwpools[t].cpuset # {} /\ result.hwpools[t].cpuset \subseteq Primary(r)
        /\ \A t, u \in I : result.colors[t] = result.colors[u] =>
              result.hwpools[t].cpuset = result.hwpools[u].cpuset
        /\ \A t, u \in I : result.colors[t] # result.colors[u] =>
              result.hwpools[t].cpuset \cap result.hwpools[u].cpuset = {}
    BY <1>2, Zenon DEF ColorsFit, I
  <2>2. /\ \A m \in Group(r) : hwpool[m].cpuset # {} /\ hwpool[m].cpuset \subseteq Primary(r)
        /\ \A m, n \in Group(r) : colorp[m] = colorp[n] => hwpool[m].cpuset = hwpool[n].cpuset
    BY <1>2, <1>6, <2>1
  <2>3. \A m, n \in Group(r) : colorp[m] # colorp[n] => hwpool[m].cpuset \cap hwpool[n].cpuset = {}
    BY <1>2, <1>6, <2>1
  <2>4. "GPU" \notin Types => \A pu \in Primary(r) : \E m \in Group(r) : pu \in scope[m].hwpool.cpuset
    <3>1. ASSUME "GPU" \notin Types PROVE Primary(r) = BasePool(r).cpuset
      <4>1. args[r].type \in Types \cup {"LAST"}
        BY DEF IInv, TypeInv
      <4>2. args[r].type # "GPU"
        BY <3>1, <4>1
      <4>. QED
        BY <4>2 DEF Primary, m_primary_cpuset_for_split
    <3>. QED
      BY <1>7, <3>1
  <2>. QED
    BY <2>2, <2>3, <2>4, Zenon DEF ChildCpusets
<1>9. ChildDevices(r)
  <2>1. DevicesFit(BasePool(r), NMembers(r), result)
    BY <1>2 DEF SentFits
  <2>. HIDE DEF result, I
  <2>2. /\ \A t \in I : result.hwpools[t].devices \subseteq BasePool(r).devices
        /\ \A t, u \in I : t # u => result.hwpools[t].devices \cap result.hwpools[u].devices = {}
        /\ \A dev \in BasePool(r).devices : \E t \in I : dev \in result.hwpools[t].devices
        /\ \A t, u \in I : \A dev \in result.hwpools[t].devices :
              affinity(dev) \cap result.hwpools[t].cpuset = {}
              /\ affinity(dev) \cap result.hwpools[u].cpuset # {} => result.hwpools[u].devices # {}
    BY <2>1, Zenon DEF DevicesFit, I
  <2>3. \A m \in Group(r) : \A dev \in hwpool[m].devices :
           \E n \in Group(r) : dev \in scope[n].hwpool.devices
    BY <1>2, <1>6, <1>7, <2>2
  <2>4. \A m, n \in Group(r) : m # n => hwpool[m].devices \cap hwpool[n].devices = {}
    BY <1>2, <1>6, <2>2
  <2>5. \A n \in Group(r) : \A dev \in scope[n].hwpool.devices :
           \E m \in Group(r) : dev \in hwpool[m].devices
    <3>1. ASSUME NEW n \in Group(r), NEW dev \in scope[n].hwpool.devices
          PROVE  \E m \in Group(r) : dev \in hwpool[m].devices
      <4>1. dev \in BasePool(r).devices
        BY <1>7
      <4>2. PICK t \in I : dev \in result.hwpools[t].devices
        BY <2>2, <4>1
      <4>3. PICK m \in Group(r) : group_rank(m) = t
        BY <1>2
      <4>. QED
        BY <1>6, <4>2, <4>3
    <3>. QED
      BY <3>1
  <2>6. \A m, n \in Group(r) : \A dev \in hwpool[m].devices :
          affinity(dev) \cap hwpool[m].cpuset = {} /\ affinity(dev) \cap hwpool[n].cpuset # {} =>
              hwpool[n].devices # {}
    <3>1. ASSUME NEW m \in Group(r), NEW n \in Group(r), NEW dev \in hwpool[m].devices,
                 affinity(dev) \cap hwpool[m].cpuset = {}, affinity(dev) \cap hwpool[n].cpuset # {}
          PROVE  hwpool[n].devices # {}
      <4>1. /\ group_rank(m) \in I /\ group_rank(n) \in I
            /\ hwpool[m] = result.hwpools[group_rank(m)] /\ hwpool[n] = result.hwpools[group_rank(n)]
        BY <1>2, <1>6
      <4>2. /\ dev \in result.hwpools[group_rank(m)].devices
            /\ affinity(dev) \cap result.hwpools[group_rank(m)].cpuset = {}
            /\ affinity(dev) \cap result.hwpools[group_rank(n)].cpuset # {}
        BY <3>1, <4>1
      <4>3. result.hwpools[group_rank(n)].devices # {}
        BY <2>2, <4>1, <4>2, Zenon
      <4>. QED
        BY <4>1, <4>3
    <3>. QED
      BY <3>1
  <2>. QED
    BY <2>3, <2>4, <2>5, <2>6, Zenon DEF ChildDevices
<1>. QED
  BY <1>2, <1>3, <1>4, <1>5, <1>8, <1>9

-----------------------------------------------------------------------------
(* What the members of a group have. *)

(* As long as a rank has to ask for its scope, the server would tell it    *)
(* what it has told the others.                                            *)
AnswersAgree ==
    \A r \in Ranks : pc[r] = "intrinsic" =>
        \A m \in Group(r) : scope[m].origin # EmptyPool => scope[m].hwpool = Reply(r).hwpool

CpusetsAgree ==
    \A r \in Ranks : \A m \in Group(r) :
        scope[r].origin # EmptyPool /\ scope[m].origin # EmptyPool =>
            scope[m].hwpool.cpuset = scope[r].hwpool.cpuset

(* A bind push does not change the answer: it binds to the pool the server *)
(* made of the same bindings.                                              *)
LEMMA AnswerStays ==
    ASSUME IInv, AnswersAgree, Next, EarlyParts = FALSE,
           NEW r \in Ranks, pc[r] = "intrinsic"
    PROVE  get_intrinsic_hwpool(IScope, {bound'[m] : m \in Group(r)}) = Reply(r)
<1>0. bound \in [Ranks -> SUBSET PUs] /\ Group(r) \subseteq Ranks /\ Group(r) = make_intrinsic_group(r)
  BY DEF IInv, TypeInv, TypeOK, GroupInv, RankInv, LocalInv
<1>1. CASE bound' = bound
  BY <1>1 DEF Reply
<1>2. CASE bound' # bound
  <2>1. PICK k \in Ranks : BindPush(k) \/ \E nobjs \in Parts : CreateAndBind(k, nobjs)
    BY <1>2 DEF Next, make_intrinsic, qv_split, qv_split_at, Call, InSplit, RootSplits, Barrier,
                RootSends, Receive, MakeChildGroup, CommSplit
  <2>2. BindPush(k)
    BY <2>1 DEF CreateAndBind
  <2>3. /\ bound'[k] = scope[k].hwpool.cpuset /\ pc[k] = "app" /\ k # r
        /\ \A m \in Ranks \ {k} : bound'[m] = bound[m]
    BY <1>0, <2>2 DEF BindPush
  <2>4. CASE k \notin Group(r)
    <3>1. {bound'[m] : m \in Group(r)} = {bound[m] : m \in Group(r)}
      BY <1>0, <2>3, <2>4
    <3>. QED
      BY <3>1 DEF Reply
  <2>5. CASE IScope = "JOB" /\ k \in Group(r)
    <3>1. scope[k].origin # EmptyPool
      BY <2>3 DEF IInv, GroupInv, RankInv, LocalInv
    <3>2. scope[k].hwpool = Reply(r).hwpool
      BY <2>5, <3>1 DEF AnswersAgree
    <3>. DEFINE U == UNION {bound[m] : m \in Group(r)}
                V == UNION {bound'[m] : m \in Group(r)}
    <3>3. /\ Reply(r) = [rc |-> "SUCCESS", hwpool |-> populate(U)]
          /\ get_intrinsic_hwpool(IScope, {bound'[m] : m \in Group(r)})
                = [rc |-> "SUCCESS", hwpool |-> populate(V)]
      BY <2>5 DEF Reply, get_intrinsic_hwpool, m_get_iscope_bitmap_job
    <3>4. \A x : x \in U <=> \E m \in Group(r) : x \in bound[m]
      OBVIOUS
    <3>5. \A x : x \in V <=> \E m \in Group(r) : x \in bound'[m]
      OBVIOUS
    <3>. HIDE DEF U, V
    <3>6. bound'[k] = U
      BY <2>3, <3>2, <3>3 DEF populate, Pool
    <3>7. \A x : x \in V => x \in U
      BY <1>0, <2>3, <3>4, <3>5, <3>6
    <3>8. \A x : x \in U => x \in V
      BY <2>5, <3>5, <3>6
    <3>9. U = V
      BY <3>7, <3>8
    <3>. QED
      BY <3>3, <3>9
  <2>6. CASE IScope # "JOB" /\ k \in Group(r)
    <3>1. IScope # "PROCESS"
      BY <1>0, <2>3, <2>6 DEF make_intrinsic_group
    <3>2. IScope \in {"SYSTEM", "USER"}
      BY <2>6, <3>1, SplitAssumption
    <3>. QED
      BY <3>2 DEF Reply, get_intrinsic_hwpool
  <2>. QED
    BY <2>4, <2>5, <2>6
<1>. QED
  BY <1>1, <1>2

LEMMA AgreementStep ==
    ASSUME IInv, AnswersAgree, CpusetsAgree, Next, EarlyParts = FALSE
    PROVE  AnswersAgree' /\ CpusetsAgree'
<1>0. \A r \in Ranks : /\ r \in Group(r) /\ Group(r) \subseteq Ranks
                       /\ \A m \in Group(r) : Group(m) = Group(r)
                       /\ pc[r] = "intrinsic" => scope[r].origin = EmptyPool
  BY DEF IInv, GroupInv, RankInv, LocalInv
<1>1. ASSUME scope' = scope, \A r \in Ranks : pc'[r] = "intrinsic" => pc[r] = "intrinsic"
      PROVE  AnswersAgree' /\ CpusetsAgree'
  <2>1. \A r \in Ranks : Group(r)' = Group(r)
    BY <1>1 DEF Group
  <2>2. ASSUME NEW r \in Ranks, pc'[r] = "intrinsic" PROVE pc[r] = "intrinsic" /\ Reply(r)' = Reply(r)
    <3>1. pc[r] = "intrinsic"
      BY <1>1, <2>2
    <3>2. get_intrinsic_hwpool(IScope, {bound'[m] : m \in Group(r)}) = Reply(r)
      BY <3>1, AnswerStays
    <3>. QED
      BY <2>1, <3>1, <3>2 DEF Reply
  <2>3. AnswersAgree'
    BY <1>1, <2>1, <2>2 DEF AnswersAgree
  <2>4. CpusetsAgree'
    BY <1>1, <2>1 DEF CpusetsAgree
  <2>. QED
    BY <2>3, <2>4
<1>2. ASSUME NEW r \in Ranks, GetsAnswer(r),
             \A m \in Ranks : pc'[m] = "intrinsic" => pc[m] = "intrinsic"
      PROVE  AnswersAgree' /\ CpusetsAgree'
  <2>1. /\ pc[r] = "intrinsic" /\ pc'[r] = "app" /\ scope'[r].members = scope[r].members
        /\ scope'[r].hwpool = Reply(r).hwpool
        /\ \A m \in Ranks \ {r} : scope'[m] = scope[m]
    BY <1>2 DEF GetsAnswer
  <2>2. \A m \in Ranks : Group(m)' = Group(m)
    BY <2>1 DEF Group
  <2>3. ASSUME NEW m \in Group(r), scope'[m].origin # EmptyPool PROVE scope'[m].hwpool = Reply(r).hwpool
    BY <1>0, <2>1, <2>3 DEF AnswersAgree
  <2>4. ASSUME NEW k \in Ranks, pc'[k] = "intrinsic"
        PROVE  /\ pc[k] = "intrinsic" /\ k # r /\ Reply(k)' = Reply(k)
               /\ k \in Group(r) => Reply(k) = Reply(r)
    <3>1. pc[k] = "intrinsic" /\ k # r
      BY <1>2, <2>1, <2>4
    <3>2. get_intrinsic_hwpool(IScope, {bound'[m] : m \in Group(k)}) = Reply(k)
      BY <3>1, AnswerStays
    <3>3. k \in Group(r) => Group(k) = Group(r)
      BY <1>0
    <3>. QED
      BY <2>2, <3>1, <3>2, <3>3 DEF Reply
  <2>5. AnswersAgree'
    <3>1. ASSUME NEW k \in Ranks, pc'[k] = "intrinsic", NEW m \in Group(k), scope'[m].origin # EmptyPool
          PROVE  scope'[m].hwpool = (Reply(k)').hwpool
      <4>1. CASE k \in Group(r)
        <5>1. m \in Group(r)
          BY <1>0, <4>1
        <5>. QED
          BY <2>3, <2>4, <3>1, <4>1, <5>1
      <4>2. CASE k \notin Group(r)
        <5>1. m # r /\ m \in Ranks
          BY <1>0, <4>2
        <5>. QED
          BY <2>1, <2>4, <3>1, <5>1 DEF AnswersAgree
      <4>. QED
        BY <4>1, <4>2
    <3>. QED
      BY <2>2, <3>1 DEF AnswersAgree
  <2>6. CpusetsAgree'
    <3>1. ASSUME NEW k \in Ranks, NEW m \in Group(k),
                 scope'[k].origin # EmptyPool, scope'[m].origin # EmptyPool
          PROVE  scope'[m].hwpool.cpuset = scope'[k].hwpool.cpuset
      <4>1. CASE k \in Group(r)
        <5>1. m \in Group(r)
          BY <1>0, <4>1
        <5>2. scope'[m].hwpool = Reply(r).hwpool /\ scope'[k].hwpool = Reply(r).hwpool
          BY <2>3, <3>1, <4>1, <5>1
        <5>. QED
          BY <5>2
      <4>2. CASE k \notin Group(r)
        <5>1. m # r /\ k # r /\ m \in Ranks
          BY <1>0, <4>2
        <5>. QED
          BY <2>1, <3>1, <5>1 DEF CpusetsAgree
      <4>. QED
        BY <4>1, <4>2
    <3>. QED
      BY <2>2, <3>1 DEF CpusetsAgree
  <2>. QED
    BY <2>5, <2>6
<1>3. ASSUME NEW r \in Ranks, GetChildren(r),
             \A m \in Ranks : pc'[m] = "intrinsic" => pc[m] = "intrinsic"
      PROVE  AnswersAgree' /\ CpusetsAgree'
  <2>1. /\ \A m \in Group(r) : /\ pc[m] = "comm_split"
                               /\ scope'[m].members = {n \in Group(r) : colorp[n] = colorp[m]}
                               /\ scope'[m].hwpool = hwpool[m]
        /\ \A m \in Ranks \ Group(r) : scope'[m] = scope[m]
    BY <1>3 DEF GetChildren
  <2>2. /\ Group(r) \subseteq Ranks /\ ChildCpusets(r)
        /\ \A m \in Ranks \ Group(r) : Group(m) \cap Group(r) = {}
    BY <1>3, ChildrenFit
  <2>3. /\ \A m \in Group(r) : Group(m)' = {n \in Group(r) : colorp[n] = colorp[m]}
        /\ \A m \in Ranks \ Group(r) : Group(m)' = Group(m)
    BY <2>1 DEF Group
  <2>4. ASSUME NEW k \in Ranks \ Group(r), NEW m \in Group(k)
        PROVE  m \in Ranks /\ scope'[m] = scope[m] /\ scope'[k] = scope[k]
    BY <1>0, <2>1, <2>2
  <2>5. AnswersAgree'
    <3>1. ASSUME NEW k \in Ranks, pc'[k] = "intrinsic"
          PROVE  /\ k \in Ranks \ Group(r) /\ pc[k] = "intrinsic" /\ Group(k)' = Group(k)
                 /\ Reply(k)' = Reply(k)
      <4>1. pc[k] = "intrinsic" /\ k \in Ranks \ Group(r)
        BY <1>3, <2>1, <3>1
      <4>2. get_intrinsic_hwpool(IScope, {bound'[m] : m \in Group(k)}) = Reply(k)
        BY <4>1, AnswerStays
      <4>. QED
        BY <2>3, <4>1, <4>2 DEF Reply
    <3>. QED
      BY <2>4, <3>1 DEF AnswersAgree
  <2>6. CpusetsAgree'
    <3>1. ASSUME NEW k \in Group(r), NEW m \in Group(k)' PROVE scope'[m].hwpool.cpuset = scope'[k].hwpool.cpuset
      <4>1. m \in Group(r) /\ colorp[m] = colorp[k]
        BY <2>3
      <4>2. hwpool[m].cpuset = hwpool[k].cpuset
        BY <2>2, <4>1 DEF ChildCpusets
      <4>. QED
        BY <2>1, <4>1, <4>2
    <3>2. ASSUME NEW k \in Ranks \ Group(r), NEW m \in Group(k)',
                 scope'[k].origin # EmptyPool, scope'[m].origin # EmptyPool
          PROVE  scope'[m].hwpool.cpuset = scope'[k].hwpool.cpuset
      BY <2>3, <2>4, <3>2 DEF CpusetsAgree
    <3>. QED
      BY <3>1, <3>2 DEF CpusetsAgree
  <2>. QED
    BY <2>5, <2>6
<1>. QED
  BY <1>1, <1>2, <1>3, ScopeSteps

LEMMA Agreement == ASSUME EarlyParts = FALSE PROVE Spec => [](AnswersAgree /\ CpusetsAgree)
<1>1. Init => AnswersAgree /\ CpusetsAgree
  <2>. SUFFICES ASSUME Init PROVE AnswersAgree /\ CpusetsAgree
    OBVIOUS
  <2>1. \A r \in Ranks : Group(r) \subseteq Ranks /\ scope[r].origin = EmptyPool
    BY DEF Init, Group, make_intrinsic_group
  <2>. QED
    BY <2>1 DEF AnswersAgree, CpusetsAgree
<1>2. IInv /\ AnswersAgree /\ CpusetsAgree /\ [Next]_vars => (AnswersAgree /\ CpusetsAgree)'
  <2>1. ASSUME AnswersAgree, CpusetsAgree, UNCHANGED vars PROVE AnswersAgree' /\ CpusetsAgree'
    BY <2>1 DEF vars, AnswersAgree, CpusetsAgree, Group, Reply
  <2>. QED
    BY <2>1, AgreementStep
<1>. QED
  BY <1>1, <1>2, Invariance, PTL DEF Spec

(* The members of a scope's group agree on who the members are, on the     *)
(* cpuset and on the number of splits, however requests to the server,     *)
(* bind pushes and splits interleave, as long as nobody binds to a part of *)
(* its scope while others have yet to ask for theirs.                      *)
THEOREM MembersAgree == ASSUME EarlyParts = FALSE PROVE Spec => []GroupsMatchPools
<1>1. IInv /\ CpusetsAgree => GroupsMatchPools
  BY DEF IInv, GroupInv, RankInv, CpusetsAgree, GroupsMatchPools, HasScope
<1>. QED
  BY <1>1, Invariance, Agreement, PTL

-----------------------------------------------------------------------------
(* What different groups have. *)

OthersDisjoint ==
    \A r, m \in Ranks : Group(m) # Group(r) =>
        scope[r].hwpool.cpuset \cap scope[m].hwpool.cpuset = {}

LEMMA DisjointStep ==
    ASSUME IInv, OthersDisjoint, Next, IScope # "PROCESS", "GPU" \notin Types \/ MaxCalls <= 1
    PROVE  OthersDisjoint'
<1>0. \A r \in Ranks : r \in Group(r) /\ Group(r) \subseteq Ranks /\ \A m \in Group(r) : Group(m) = Group(r)
  BY DEF IInv, GroupInv, RankInv
<1>1. CASE scope' = scope
  BY <1>1 DEF OthersDisjoint, Group
<1>2. ASSUME NEW r \in Ranks, GetsAnswer(r) PROVE OthersDisjoint'
  <2>1. \A m \in Ranks : Group(m)' = Group(m)
    BY <1>2 DEF GetsAnswer, Group
  <2>2. Group(r) = Ranks
    <3>1. pc[r] = "intrinsic"
      BY <1>2 DEF GetsAnswer
    <3>. QED
      BY <3>1 DEF IInv, GroupInv, RankInv, LocalInv, make_intrinsic_group
  <2>3. \A m, n \in Ranks : Group(m)' = Group(n)'
    BY <1>0, <2>1, <2>2
  <2>. QED
    BY <2>3 DEF OthersDisjoint
<1>3. ASSUME NEW r \in Ranks, GetChildren(r) PROVE OthersDisjoint'
  <2>1. /\ \A m \in Group(r) : /\ scope'[m].members = {n \in Group(r) : colorp[n] = colorp[m]}
                               /\ scope'[m].hwpool = hwpool[m]
        /\ \A m \in Ranks \ Group(r) : scope'[m] = scope[m]
    BY <1>3 DEF GetChildren
  <2>2. /\ Group(r) \subseteq Ranks /\ ChildCpusets(r)
        /\ \A m \in Ranks \ Group(r) : Group(m) # Group(r)
        /\ scope[r].depth \in Nat /\ scope[r].depth < MaxCalls
        /\ scope[r].depth = 0 => Group(r) = make_intrinsic_group(r)
    BY <1>3, ChildrenFit
  <2>3. /\ \A m \in Group(r) : Group(m)' = {n \in Group(r) : colorp[n] = colorp[m]}
        /\ \A m \in Ranks \ Group(r) : Group(m)' = Group(m)
    BY <2>1 DEF Group
  <2>4. ASSUME NEW m \in Group(r), NEW n \in Group(r), Group(m)' # Group(n)'
        PROVE  scope'[m].hwpool.cpuset \cap scope'[n].hwpool.cpuset = {}
    <3>1. colorp[m] # colorp[n]
      BY <2>3, <2>4
    <3>2. hwpool[m].cpuset \cap hwpool[n].cpuset = {}
      BY <2>2, <3>1 DEF ChildCpusets
    <3>. QED
      BY <2>1, <3>2
  <2>5. ASSUME NEW m \in Group(r), NEW n \in Ranks \ Group(r)
        PROVE  scope'[m].hwpool.cpuset \cap scope'[n].hwpool.cpuset = {}
    <3>1. "GPU" \notin Types
      <4>1. CASE MaxCalls <= 1
        <5>1. scope[r].depth = 0
          BY <2>2, <4>1, SplitAssumption
        <5>2. Group(r) = Ranks
          BY <2>2, <5>1 DEF make_intrinsic_group
        <5>. QED
          BY <5>2
      <4>. QED
        BY <4>1
    <3>2. ASSUME NEW pu \in hwpool[m].cpuset PROVE pu \notin scope[n].hwpool.cpuset
      <4>1. pu \in Primary(r)
        BY <2>2 DEF ChildCpusets
      <4>2. PICK k \in Group(r) : pu \in scope[k].hwpool.cpuset
        BY <2>2, <3>1, <4>1 DEF ChildCpusets
      <4>3. k \in Ranks /\ Group(k) # Group(n)
        BY <1>0, <2>2
      <4>4. scope[k].hwpool.cpuset \cap scope[n].hwpool.cpuset = {}
        BY <4>3 DEF OthersDisjoint
      <4>. QED
        BY <4>2, <4>4
    <3>. QED
      BY <2>1, <3>2
  <2>6. ASSUME NEW m \in Ranks \ Group(r), NEW n \in Ranks \ Group(r), Group(m)' # Group(n)'
        PROVE  scope'[m].hwpool.cpuset \cap scope'[n].hwpool.cpuset = {}
    BY <2>1, <2>3, <2>6 DEF OthersDisjoint
  <2>7. ASSUME NEW m \in Ranks, NEW n \in Ranks, Group(n)' # Group(m)'
        PROVE  scope'[m].hwpool.cpuset \cap scope'[n].hwpool.cpuset = {}
    <3>1. CASE m \in Group(r) /\ n \in Group(r)
      BY <2>4, <2>7, <3>1
    <3>2. CASE m \in Group(r) /\ n \notin Group(r)
      BY <2>5, <3>2
    <3>3. CASE m \notin Group(r) /\ n \in Group(r)
      <4>1. scope'[n].hwpool.cpuset \cap scope'[m].hwpool.cpuset = {}
        BY <2>5, <3>3
      <4>. QED
        BY <4>1
    <3>4. CASE m \notin Group(r) /\ n \notin Group(r)
      BY <2>6, <2>7, <3>4
    <3>. QED
      BY <3>1, <3>2, <3>3, <3>4
  <2>. QED
    BY <2>7 DEF OthersDisjoint
<1>. QED
  BY <1>1, <1>2, <1>3, ScopeSteps

(* Ranks in different groups share no processing unit, after any number of *)
(* splits, and every rank has one.  A split at a device type takes what is *)
(* near the devices, so then this holds for the first split only.          *)
THEOREM SeparateGroups ==
    ASSUME IScope # "PROCESS", "GPU" \notin Types \/ MaxCalls <= 1
    PROVE  Spec => []GroupsDisjoint
<1>1. Init => OthersDisjoint
  BY DEF Init, OthersDisjoint, Group, make_intrinsic_group
<1>2. IInv /\ OthersDisjoint /\ [Next]_vars => OthersDisjoint'
  <2>1. ASSUME OthersDisjoint, UNCHANGED vars PROVE OthersDisjoint'
    BY <2>1 DEF vars, OthersDisjoint, Group
  <2>. QED
    BY <2>1, DisjointStep
<1>3. IInv /\ OthersDisjoint => GroupsDisjoint
  <2>1. ASSUME IInv PROVE \A r \in Ranks : HasScope(r) => scope[r].hwpool.cpuset # {}
    BY <2>1 DEF IInv, GroupInv, RankInv, LocalInv, HasScope
  <2>. QED
    BY <2>1 DEF OthersDisjoint, GroupsDisjoint
<1>. QED
  BY <1>1, <1>2, <1>3, Invariance, PTL DEF Spec

(* As long as nobody splits at a device type, a child scope has only       *)
(* processing units of its parent.                                         *)
THEOREM ChildrenShrink ==
    ASSUME EarlyParts = FALSE, "GPU" \notin Types PROVE Spec => ChildWithinParent
<1>1. ASSUME IInv, CpusetsAgree, Next
      PROVE  \A r \in Ranks : HasScope(r) => scope'[r].hwpool.cpuset \subseteq scope[r].hwpool.cpuset
  <2>1. CASE scope' = scope
    BY <2>1
  <2>2. ASSUME NEW k \in Ranks, GetsAnswer(k), NEW r \in Ranks, HasScope(r)
        PROVE  scope'[r].hwpool.cpuset \subseteq scope[r].hwpool.cpuset
    <3>1. r # k
      BY <2>2 DEF HasScope, GetsAnswer
    <3>. QED
      BY <2>2, <3>1 DEF GetsAnswer
  <2>3. ASSUME NEW k \in Ranks, GetChildren(k), NEW r \in Ranks, HasScope(r)
        PROVE  scope'[r].hwpool.cpuset \subseteq scope[r].hwpool.cpuset
    <3>1. CASE r \notin Group(k)
      BY <2>3, <3>1 DEF GetChildren
    <3>2. CASE r \in Group(k)
      <4>1. scope'[r].hwpool = hwpool[r]
        BY <2>3, <3>2 DEF GetChildren
      <4>2. /\ Group(k) \subseteq Ranks /\ ChildCpusets(k)
            /\ \A m \in Group(k) : Group(m) = Group(k) /\ scope[m].origin # EmptyPool
        BY <1>1, <2>3, ChildrenFit
      <4>3. ASSUME NEW pu \in hwpool[r].cpuset PROVE pu \in scope[r].hwpool.cpuset
        <5>1. pu \in Primary(k)
          BY <3>2, <4>2 DEF ChildCpusets
        <5>2. PICK m \in Group(k) : pu \in scope[m].hwpool.cpuset
          BY <4>2, <5>1 DEF ChildCpusets
        <5>3. scope[m].hwpool.cpuset = scope[r].hwpool.cpuset
          BY <1>1, <3>2, <4>2 DEF CpusetsAgree
        <5>. QED
          BY <5>2, <5>3
      <4>. QED
        BY <4>1, <4>3
    <3>. QED
      BY <3>1, <3>2
  <2>. QED
    BY <1>1, <2>1, <2>2, <2>3, ScopeSteps
<1>2. IInv /\ CpusetsAgree /\ [Next]_vars =>
         [\A r \in Ranks : HasScope(r) =>
              scope'[r].hwpool.cpuset \subseteq scope[r].hwpool.cpuset]_vars
  BY <1>1
<1>. QED
  BY <1>2, Invariance, Agreement, PTL DEF Spec, ChildWithinParent

-----------------------------------------------------------------------------
(* Devices. *)

LEMMA DevicesStep ==
    ASSUME IInv, DevicesPartitioned, Next, IScope # "PROCESS"
    PROVE  DevicesPartitioned'
<1>0. \A r \in Ranks : /\ r \in Group(r) /\ Group(r) \subseteq Ranks
                       /\ \A m \in Group(r) : Group(m) = Group(r) /\ scope[m].depth = scope[r].depth
                       /\ scope[r].depth \in Nat
                       /\ scope[r].depth = 0 => Group(r) = Ranks
  BY DEF IInv, TypeInv, TypeOK, Scopes, GroupInv, RankInv, LocalInv, make_intrinsic_group
<1>1. CASE scope' = scope
  BY <1>1 DEF DevicesPartitioned
<1>2. ASSUME NEW r \in Ranks, GetsAnswer(r) PROVE DevicesPartitioned'
  <2>1. /\ pc[r] = "intrinsic" /\ scope'[r].depth = scope[r].depth
        /\ scope'[r].origin = scope'[r].hwpool
        /\ \A m \in Ranks \ {r} : scope'[m] = scope[m]
    BY <1>2 DEF GetsAnswer
  <2>2. scope[r].depth = 0 /\ scope[r].hwpool = EmptyPool
    BY <2>1 DEF IInv, GroupInv, RankInv, LocalInv
  <2>3. \A m \in Ranks : scope[m].depth = 0
    BY <1>0, <2>2
  <2>4. \A m \in Ranks : ~(scope'[m].depth > 0)
    BY <2>1, <2>3
  <2>5. ASSUME NEW k \in Ranks, NEW dev \in scope'[k].origin.devices
        PROVE  \E m \in Ranks : dev \in scope'[m].hwpool.devices
    <3>1. CASE k = r
      BY <2>1, <2>5, <3>1
    <3>2. CASE k # r
      <4>1. dev \in scope[k].origin.devices
        BY <2>1, <3>2
      <4>2. PICK m \in Ranks : dev \in scope[m].hwpool.devices
        BY <4>1 DEF DevicesPartitioned
      <4>3. m # r
        BY <2>2, <4>2 DEF EmptyPool, Pool
      <4>. QED
        BY <2>1, <4>2, <4>3
    <3>. QED
      BY <3>1, <3>2
  <2>. QED
    BY <2>4, <2>5 DEF DevicesPartitioned
<1>3. ASSUME NEW r \in Ranks, GetChildren(r) PROVE DevicesPartitioned'
  <2>1. /\ \A m \in Group(r) : scope'[m].hwpool = hwpool[m] /\ scope'[m].origin = scope[m].origin
        /\ \A m \in Ranks \ Group(r) : scope'[m] = scope[m]
    BY <1>3 DEF GetChildren
  <2>2. Group(r) \subseteq Ranks /\ ChildDevices(r)
    BY <1>3, ChildrenFit
  <2>3. ASSUME NEW m \in Group(r), NEW n \in Ranks \ Group(r)
        PROVE  scope'[m].hwpool.devices \cap scope'[n].hwpool.devices = {}
    <3>1. ASSUME NEW dev \in hwpool[m].devices PROVE dev \notin scope[n].hwpool.devices
      <4>1. PICK k \in Group(r) : dev \in scope[k].hwpool.devices
        BY <2>2 DEF ChildDevices
      <4>2. k # n /\ k \in Ranks /\ scope[k].depth > 0
        BY <1>0, <2>2
      <4>3. scope[k].hwpool.devices \cap scope[n].hwpool.devices = {}
        BY <4>2 DEF DevicesPartitioned
      <4>. QED
        BY <4>1, <4>3
    <3>. QED
      BY <2>1, <3>1
  <2>4. ASSUME NEW m \in Ranks, NEW n \in Ranks, m # n, scope'[m].depth > 0
        PROVE  scope'[m].hwpool.devices \cap scope'[n].hwpool.devices = {}
    <3>1. CASE m \in Group(r) /\ n \in Group(r)
      <4>1. hwpool[m].devices \cap hwpool[n].devices = {}
        BY <2>2, <2>4, <3>1 DEF ChildDevices
      <4>. QED
        BY <2>1, <3>1, <4>1
    <3>2. CASE m \in Group(r) /\ n \notin Group(r)
      BY <2>3, <3>2
    <3>3. CASE m \notin Group(r) /\ n \in Group(r)
      <4>1. scope'[n].hwpool.devices \cap scope'[m].hwpool.devices = {}
        BY <2>3, <3>3
      <4>. QED
        BY <4>1
    <3>4. CASE m \notin Group(r) /\ n \notin Group(r)
      BY <2>1, <2>4, <3>4 DEF DevicesPartitioned
    <3>. QED
      BY <3>1, <3>2, <3>3, <3>4
  <2>5. ASSUME NEW k \in Ranks, NEW dev \in scope'[k].origin.devices
        PROVE  \E m \in Ranks : dev \in scope'[m].hwpool.devices
    <3>1. dev \in scope[k].origin.devices
      BY <2>1, <2>5
    <3>2. PICK n \in Ranks : dev \in scope[n].hwpool.devices
      BY <3>1 DEF DevicesPartitioned
    <3>3. CASE n \in Group(r)
      <4>1. PICK m \in Group(r) : dev \in hwpool[m].devices
        BY <2>2, <3>2, <3>3 DEF ChildDevices
      <4>. QED
        BY <2>1, <2>2, <4>1
    <3>4. CASE n \notin Group(r)
      BY <2>1, <3>2, <3>4
    <3>. QED
      BY <3>3, <3>4
  <2>. QED
    BY <2>4, <2>5 DEF DevicesPartitioned
<1>. QED
  BY <1>1, <1>2, <1>3, ScopeSteps

(* No sequence of splits of a scope that the ranks have in common loses a  *)
(* device of it or gives one to two ranks.                                 *)
THEOREM DevicesKept == ASSUME IScope # "PROCESS" PROVE Spec => []DevicesPartitioned
<1>1. Init => DevicesPartitioned
  <2>. SUFFICES ASSUME Init PROVE DevicesPartitioned
    OBVIOUS
  <2>1. \A r \in Ranks : scope[r].depth = 0 /\ scope[r].origin.devices = {}
    BY DEF Init, EmptyPool, Pool
  <2>. QED
    BY <2>1 DEF DevicesPartitioned
<1>2. IInv /\ DevicesPartitioned /\ [Next]_vars => DevicesPartitioned'
  <2>1. ASSUME DevicesPartitioned, UNCHANGED vars PROVE DevicesPartitioned'
    BY <2>1 DEF vars, DevicesPartitioned
  <2>. QED
    BY <2>1, DevicesStep
<1>. QED
  BY <1>1, <1>2, Invariance, PTL DEF Spec

LEMMA CloseStep ==
    ASSUME IInv, DevicesStayClose, Next, IScope # "PROCESS", MaxCalls <= 1
    PROVE  DevicesStayClose'
<1>0. \A r \in Ranks : /\ r \in Group(r) /\ Group(r) \subseteq Ranks
                       /\ \A m \in Group(r) : scope[m].depth = scope[r].depth
                       /\ scope[r].depth \in Nat
                       /\ scope[r].depth = 0 => Group(r) = Ranks
  BY DEF IInv, TypeInv, TypeOK, Scopes, GroupInv, RankInv, LocalInv, make_intrinsic_group
<1>1. CASE scope' = scope
  BY <1>1 DEF DevicesStayClose
<1>2. ASSUME NEW r \in Ranks, GetsAnswer(r) PROVE DevicesStayClose'
  <2>1. /\ pc[r] = "intrinsic" /\ scope'[r].depth = scope[r].depth
        /\ \A m \in Ranks \ {r} : scope'[m] = scope[m]
    BY <1>2 DEF GetsAnswer
  <2>2. scope[r].depth = 0
    BY <2>1 DEF IInv, GroupInv, RankInv, LocalInv
  <2>3. \A m \in Ranks : ~(scope'[m].depth > 0)
    BY <1>0, <2>1, <2>2
  <2>. QED
    BY <2>3 DEF DevicesStayClose
<1>3. ASSUME NEW r \in Ranks, GetChildren(r) PROVE DevicesStayClose'
  <2>1. \A m \in Group(r) : scope'[m].hwpool = hwpool[m]
    BY <1>3 DEF GetChildren
  <2>2. ChildDevices(r) /\ scope[r].depth < MaxCalls
    BY <1>3, ChildrenFit
  <2>3. Group(r) = Ranks
    BY <1>0, <2>2, SplitAssumption
  <2>4. \A m, n \in Ranks : \A dev \in hwpool[m].devices :
          affinity(dev) \cap hwpool[m].cpuset = {} /\ affinity(dev) \cap hwpool[n].cpuset # {} =>
              hwpool[n].devices # {}
    BY <2>2, <2>3, Zenon DEF ChildDevices
  <2>. QED
    BY <2>1, <2>3, <2>4 DEF DevicesStayClose
<1>. QED
  BY <1>1, <1>2, <1>3, ScopeSteps

(* After a split a device is in a pool it has no affinity for only if all  *)
(* pools it has affinity for have devices of their own.                    *)
THEOREM DevicesClose ==
    ASSUME IScope # "PROCESS", MaxCalls <= 1 PROVE Spec => []DevicesStayClose
<1>1. Init => DevicesStayClose
  <2>. SUFFICES ASSUME Init PROVE DevicesStayClose
    OBVIOUS
  <2>1. \A r \in Ranks : scope[r].depth = 0
    BY DEF Init
  <2>. QED
    BY <2>1 DEF DevicesStayClose
<1>2. IInv /\ DevicesStayClose /\ [Next]_vars => DevicesStayClose'
  <2>1. ASSUME DevicesStayClose, UNCHANGED vars PROVE DevicesStayClose'
    BY <2>1 DEF vars, DevicesStayClose
  <2>. QED
    BY <2>1, CloseStep
<1>. QED
  BY <1>1, <1>2, Invariance, PTL DEF Spec
=============================================================================
