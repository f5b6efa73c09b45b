---------------------------- MODULE CablesProofs -----------------------------
(***************************************************************************)
(* For every set of modules, ports and patch files: the cached propagation *)
(* order is never stale, the removal of a module is never refused, the     *)
(* graph never closes a cycle, a restart is never refused, the graph view  *)
(* follows the world, and the whole entity graph implements the Patchbay.  *)
(* On every wiring the tick order is found, or the modules on loops named. *)
(***************************************************************************)
EXTENDS MCGraph, FiniteSetTheorems, SequenceTheorems, WellFoundedInduction, TLAPS

(* As long as the cables stay, so does the order a rebuild would give.     *)
LEMMA OrderOfCables == UNCHANGED cables => RebuiltOrder' = RebuiltOrder
  BY DEF RebuiltOrder, Propagation

(* No edit, load or restart leaves a cached propagation order that the     *)
(* next sample would take for the order of other cables.                   *)
THEOREM OrderIsNeverStale == Spec => []OrderNeverStale
  <1>1. Init => OrderNeverStale
    BY DEF Init, OrderNeverStale
  <1>2. OrderNeverStale /\ [Next]_vars => OrderNeverStale'
    <2> SUFFICES ASSUME OrderNeverStale, [Next]_vars PROVE OrderNeverStale'
      OBVIOUS
    <2>1. CASE \E patch \in Patches : Load(patch)
      BY <2>1 DEF Load, Apply, OrderNeverStale
    <2>2. CASE Restart
      BY <2>2 DEF Restart, Apply, OrderNeverStale
    <2>3. CASE \E s, t \in Ports, transform \in Offered : ConnectCable(s, t, transform)
      BY <2>3 DEF ConnectCable, OrderNeverStale
    <2>4. CASE \E s, t \in Ports : \E k \in 0 .. Cardinality(Between(s, t)) :
                 DisconnectCable(s, t, k)
      BY <2>4 DEF DisconnectCable, DirtyAfter, OrderNeverStale
    <2>5. CASE \E m \in Modules : RemoveModule(m)
      BY <2>5 DEF RemoveModule, OrderNeverStale
    <2>6. CASE Sample
      BY <2>6, OrderOfCables DEF Sample, UsedOrder, OrderNeverStale, graphVars
    <2>7. CASE UNCHANGED vars
      BY <2>7, OrderOfCables DEF vars, graphVars, OrderNeverStale
    <2> QED
      BY <2>1, <2>2, <2>3, <2>4, <2>5, <2>6, <2>7 DEF Next
  <1> QED
    BY <1>1, <1>2, PTL DEF Spec
-----------------------------------------------------------------------------
(* Cables are told apart by their entities, the entities are those this    *)
(* world has made, and the index holds the entities of each end.           *)
EntityOf(S) == {c.id : c \in S}
EntitiesApart(cs) == \A c, d \in cs : c.id = d.id => c = d
SourceIndex(cs) == [p \in Ports |-> EntityOf({c \in cs : c.source = p})]
TargetIndex(cs) == [p \in Ports |-> EntityOf(FanIn(cs, p))]
IndexInv ==
  /\ cables \subseteq Cable /\ IsFiniteSet(cables)
  /\ spawned \in Nat /\ \A c \in cables : c.id <= spawned /\ c.ordinal < spawned
  /\ EntitiesApart(cables)
  /\ by_source = SourceIndex(cables)
  /\ by_target = TargetIndex(cables)

(* An index of that kind lets every module go. *)
LEMMA IndexLetsGo == IndexInv => RemovalNeverRefused
  <1> SUFFICES ASSUME IndexInv, NEW m \in modules PROVE IndexAgreesAt(m)
    BY DEF RemovalNeverRefused
  <1>1. \A c \in Incident(m) : c.id \in by_source[c.source] /\ c.id \in by_target[c.target]
    BY DEF Incident, IndexInv, SourceIndex, TargetIndex, EntityOf, FanIn, Cable
  <1>2. ASSUME NEW p \in {q \in Ports : Owner[q] = m}
        PROVE  /\ \A i \in by_source[p] : \E c \in Incident(m) : c.id = i /\ c.source = p
               /\ \A i \in by_target[p] : \E c \in Incident(m) : c.id = i /\ c.target = p
    BY DEF Incident, IndexInv, SourceIndex, TargetIndex, EntityOf, FanIn
  <1> QED
    BY <1>1, <1>2 DEF IndexAgreesAt

(* The propagation order is strict and total on cables told apart. *)
LEMMA PropagationIsStrict ==
  ASSUME NEW c \in Cable, NEW d \in Cable, NEW e \in Cable
  PROVE  /\ ~PropagatesBefore(c, c)
         /\ PropagatesBefore(c, d) /\ PropagatesBefore(d, e) => PropagatesBefore(c, e)
         /\ c.id # d.id => PropagatesBefore(c, d) \/ PropagatesBefore(d, c)
  <1>1. /\ {c.id, d.id, e.id, c.ordinal, d.ordinal, e.ordinal} \subseteq Nat
        /\ {c.source, d.source, e.source, c.target, d.target, e.target} \subseteq Nat
    BY JacksAssumption DEF JacksAssumption, Cable
  <1>2. ~PropagatesBefore(c, c)
    BY <1>1 DEF PropagatesBefore, OlderThan
  <1>3. PropagatesBefore(c, d) /\ PropagatesBefore(d, e) => PropagatesBefore(c, e)
    BY <1>1, SMTT(30) DEF PropagatesBefore, OlderThan
  <1>4. c.id # d.id => PropagatesBefore(c, d) \/ PropagatesBefore(d, c)
    BY <1>1, SMTT(30) DEF PropagatesBefore, OlderThan
  <1> QED
    BY <1>2, <1>3, <1>4

(* A proper part of a finite set has fewer elements. *)
LEMMA SmallerPart ==
  ASSUME NEW S, NEW T, IsFiniteSet(S), T \subseteq S, T # S
  PROVE  IsFiniteSet(T) /\ Cardinality(T) < Cardinality(S)
  <1>1. /\ IsFiniteSet(T) /\ Cardinality(T) <= Cardinality(S)
        /\ Cardinality(S) = Cardinality(T) => S = T
    BY FS_Subset
  <1>2. Cardinality(S) \in Nat /\ Cardinality(T) \in Nat
    BY <1>1, FS_CardinalityType
  <1> QED
    BY <1>1, <1>2

(* The image of a finite set is finite and no larger.                      *)
LEMMA FiniteImage ==
  ASSUME NEW S, IsFiniteSet(S), NEW f, f = [x \in S |-> f[x]]
  PROVE  /\ IsFiniteSet({f[x] : x \in S})
         /\ Cardinality({f[x] : x \in S}) <= Cardinality(S)
  <1>1. f \in Surjection(S, {f[x] : x \in S})
    BY DEF Surjection
  <1> QED
    BY <1>1, FS_Surjection DEF ExistsSurjection

(* A cable ahead of another has the lower rank, so ranks tell cables apart.*)
LEMMA RankOfCable ==
  ASSUME IndexInv, NEW c \in cables
  PROVE  Rank(c) \in 1 .. Cardinality(cables)
  <1>1. Ahead(c) \subseteq cables /\ c \notin Ahead(c)
    BY PropagationIsStrict DEF Ahead, IndexInv
  <1>2. IsFiniteSet(cables)
    BY DEF IndexInv
  <1>3. IsFiniteSet(Ahead(c)) /\ Cardinality(Ahead(c)) < Cardinality(cables)
    BY <1>1, <1>2, SmallerPart
  <1> QED
    BY <1>2, <1>3, FS_CardinalityType DEF Rank

(* Ranks rise along the propagation order.                                 *)
LEMMA RankRises ==
  ASSUME IndexInv, NEW c \in cables, NEW d \in cables, PropagatesBefore(c, d)
  PROVE  Rank(c) < Rank(d)
  <1>1. Ahead(c) \subseteq Ahead(d)
    BY PropagationIsStrict DEF Ahead, IndexInv
  <1>2. c \in Ahead(d) /\ c \notin Ahead(c)
    BY PropagationIsStrict DEF Ahead, IndexInv
  <1>3. IsFiniteSet(Ahead(d))
    BY FS_Subset DEF Ahead, IndexInv
  <1>4. Ahead(c) # Ahead(d)
    BY <1>2
  <1>5. IsFiniteSet(Ahead(c)) /\ Cardinality(Ahead(c)) < Cardinality(Ahead(d))
    BY <1>1, <1>3, <1>4, SmallerPart
  <1> QED
    BY <1>3, <1>5, FS_CardinalityType DEF Rank

(* No two cables share a rank.                                             *)
LEMMA RanksTellApart ==
  ASSUME IndexInv, NEW c \in cables, NEW d \in cables, Rank(c) = Rank(d)
  PROVE  c = d
  <1> SUFFICES ASSUME c # d PROVE FALSE
    OBVIOUS
  <1>1. c.id # d.id
    BY DEF IndexInv, EntitiesApart
  <1>2. PropagatesBefore(c, d) \/ PropagatesBefore(d, c)
    BY <1>1, PropagationIsStrict DEF IndexInv
  <1>3. Rank(c) \in Nat
    BY RankOfCable, FS_CardinalityType DEF IndexInv
  <1>4. Rank(c) < Rank(d) \/ Rank(d) < Rank(c)
    BY <1>2, RankRises
  <1> QED
    BY <1>3, <1>4

(* The entities of a fresh world, from a file and from a snapshot. *)
LEMMA EntityFields ==
  ASSUME NEW wire \in Wires \cup Cable, NEW i \in Nat \ {0}
  PROVE  /\ Entity(wire, i) \in Cable /\ Entity(wire, i).id = i
         /\ Entity(wire, i).ordinal = i - 1
  <1>1. wire.source \in Ports /\ wire.target \in Ports /\ wire.transform \in Transforms
    BY DEF Wires, Cable
  <1> QED
    BY <1>1 DEF Entity, Cable

FreshWorld(cs, count) ==
  /\ cs \subseteq Cable /\ IsFiniteSet(cs)
  /\ count \in Nat /\ \A c \in cs : c.id <= count /\ c.ordinal < count
  /\ EntitiesApart(cs)

(* The cables spawned from a patch file are told apart.                    *)
LEMMA FileIsFresh ==
  ASSUME NEW list \in Seq(Wires)
  PROVE  FreshWorld(Spawned(list), Len(list))
  <1>1. \A i \in DOMAIN list : /\ Entity(list[i], i) \in Cable /\ Entity(list[i], i).id = i
                                /\ Entity(list[i], i).ordinal = i - 1
    <2> SUFFICES ASSUME NEW i \in DOMAIN list
                 PROVE  /\ Entity(list[i], i) \in Cable /\ Entity(list[i], i).id = i
                        /\ Entity(list[i], i).ordinal = i - 1
      OBVIOUS
    <2>1. list[i] \in Wires /\ i \in Nat \ {0}
      OBVIOUS
    <2> QED
      BY <2>1, EntityFields
  <1>2. IsFiniteSet(Spawned(list))
    <2>1. DOMAIN list = 1 .. Len(list) /\ Len(list) \in Nat
      OBVIOUS
    <2>2. IsFiniteSet(DOMAIN list)
      BY <2>1, FS_Interval
    <2> DEFINE f == [i \in DOMAIN list |-> Entity(list[i], i)]
    <2>3. IsFiniteSet({f[i] : i \in DOMAIN list})
      BY <2>2, FiniteImage
    <2> QED
      BY <2>3 DEF Spawned
  <1>3. \A c \in Spawned(list) : \E i \in 1 .. Len(list) : /\ c = Entity(list[i], i)
                                                            /\ c.id = i /\ c.ordinal = i - 1
    BY <1>1 DEF Spawned
  <1> QED
    BY <1>1, <1>2, <1>3 DEF FreshWorld, EntitiesApart, Spawned

(* So are those a snapshot is loaded as.                                   *)
LEMMA SnapshotIsFresh == IndexInv => FreshWorld(Snapshot, Cardinality(cables))
  <1> SUFFICES ASSUME IndexInv PROVE FreshWorld(Snapshot, Cardinality(cables))
    OBVIOUS
  <1>0. Cardinality(cables) \in Nat
    BY FS_CardinalityType DEF IndexInv
  <1>1. \A c \in cables : /\ Entity(c, Rank(c)) \in Cable /\ Entity(c, Rank(c)).id = Rank(c)
                           /\ Entity(c, Rank(c)).ordinal = Rank(c) - 1
    <2> SUFFICES ASSUME NEW c \in cables
                 PROVE  /\ Entity(c, Rank(c)) \in Cable /\ Entity(c, Rank(c)).id = Rank(c)
                        /\ Entity(c, Rank(c)).ordinal = Rank(c) - 1
      OBVIOUS
    <2>1. c \in Cable /\ Rank(c) \in Nat \ {0}
      BY <1>0, RankOfCable DEF IndexInv
    <2> QED
      BY <2>1, EntityFields
  <1>2. IsFiniteSet(Snapshot)
    <2> DEFINE f == [c \in cables |-> Entity(c, Rank(c))]
    <2>1. IsFiniteSet({f[c] : c \in cables})
      BY FiniteImage DEF IndexInv
    <2> QED
      BY <2>1 DEF Snapshot
  <1>3. \A c \in cables : Rank(c) \in Nat /\ Rank(c) <= Cardinality(cables)
    BY <1>0, RankOfCable
  <1>4. EntitiesApart(Snapshot)
    <2> SUFFICES ASSUME NEW c \in cables, NEW d \in cables,
                        Entity(c, Rank(c)).id = Entity(d, Rank(d)).id
                 PROVE  Entity(c, Rank(c)) = Entity(d, Rank(d))
      BY DEF EntitiesApart, Snapshot
    <2>1. Rank(c) = Rank(d)
      BY <1>1
    <2> QED
      BY <2>1, RanksTellApart
  <1> QED
    BY <1>0, <1>1, <1>2, <1>3, <1>4 DEF FreshWorld, Snapshot

(* A fresh world has an exact index.                                       *)
LEMMA FreshWorldIndexed ==
  ASSUME NEW ms, NEW cs, NEW count, FreshWorld(cs, count), Apply(ms, cs, count)
  PROVE  IndexInv'
  BY DEF FreshWorld, Apply, IndexInv, SourceIndex, TargetIndex, EntityOf, FanIn, EntitiesApart

(* Pulling cables out keeps the index exact, because no two share an       *)
(* entity.                                                                 *)
LEMMA UnplugKeepsIndex ==
  ASSUME IndexInv, NEW cs, cs \subseteq cables, Unplug(cs), UNCHANGED spawned
  PROVE  IndexInv'
  <1>1. cables' \subseteq cables /\ IsFiniteSet(cables')
    BY FS_Subset DEF Unplug, IndexInv
  <1>2. ASSUME NEW p \in Ports
        PROVE  /\ by_source'[p] = EntityOf({c \in cables' : c.source = p})
               /\ by_target'[p] = EntityOf(FanIn(cables', p))
    BY DEF Unplug, Unindexed, IndexInv, SourceIndex, TargetIndex, EntityOf, FanIn, EntitiesApart
  <1>3. by_source' = SourceIndex(cables')
    BY <1>2 DEF Unplug, Unindexed, SourceIndex
  <1>4. by_target' = TargetIndex(cables')
    BY <1>2 DEF Unplug, Unindexed, TargetIndex
  <1> QED
    BY <1>1, <1>3, <1>4 DEF IndexInv, EntitiesApart

(* Ordinals are bounded by the cables ever made, so one is the greatest.   *)
LEMMA LeastNatural ==
  ASSUME NEW T, T \subseteq Nat, T # {}
  PROVE  \E x \in T : \A y \in T : x <= y
  <1>1. PICK x \in T : \A y \in T : ~ (<<y, x>> \in OpToRel(<, Nat))
    BY NatLessThanWellFounded, WFMin
  <1>2. \A y \in T : ~ (y < x)
    BY <1>1 DEF OpToRel
  <1> QED
    BY <1>2

(* One of the cables has the greatest ordinal.                             *)
LEMMA NewestCable ==
  ASSUME IndexInv, cables # {}
  PROVE  \E c \in cables : \A d \in cables : d.ordinal <= c.ordinal
  <1> DEFINE below == {spawned - c.ordinal : c \in cables}
  <1>1. below \subseteq Nat /\ below # {}
    BY DEF IndexInv, Cable
  <1>2. PICK x \in below : \A y \in below : x <= y
    <2> HIDE DEF below
    <2> QED
      BY <1>1, LeastNatural
  <1>3. PICK c \in cables : x = spawned - c.ordinal
    BY <1>2
  <1>4. \A d \in cables : spawned - c.ordinal <= spawned - d.ordinal
    BY <1>2, <1>3
  <1>5. spawned \in Nat /\ \A d \in cables : d.ordinal \in Nat
    BY DEF IndexInv, Cable
  <1> QED
    BY <1>4, <1>5

(* A live connection is entered at both ends.                              *)
LEMMA ConnectKeepsIndex ==
  ASSUME IndexInv, NEW s \in Ports, NEW t \in Ports, NEW transform,
         ConnectCable(s, t, transform)
  PROVE  IndexInv'
  <1> DEFINE cable == [id |-> spawned + 1, source |-> s, target |-> t,
                       transform |-> transform, ordinal |-> NextOrdinal]
  <1>1. NextOrdinal \in Nat /\ NextOrdinal <= spawned
    <2>1. CASE cables = {}
      BY <2>1 DEF NextOrdinal, IndexInv
    <2>2. CASE cables # {}
      <3>1. PICK c \in cables : \A d \in cables : d.ordinal <= c.ordinal
        BY <2>2, NewestCable
      <3>2. (CHOOSE n \in {d.ordinal : d \in cables} : \A d \in cables : d.ordinal <= n)
              \in {d.ordinal : d \in cables}
        BY <3>1, Zenon
      <3>3. (CHOOSE n \in {d.ordinal : d \in cables} : \A d \in cables : d.ordinal <= n) \in Nat
        BY <3>2 DEF IndexInv, Cable
      <3>5. ASSUME NEW n \in {d.ordinal : d \in cables}
            PROVE  1 + n \in Nat /\ 1 + n <= spawned
        BY DEF IndexInv, Cable
      <3>4. NextOrdinal =
              1 + CHOOSE n \in {d.ordinal : d \in cables} : \A d \in cables : d.ordinal <= n
        BY <2>2, Zenon DEF NextOrdinal
      <3>6. ASSUME NEW n, n \in {d.ordinal : d \in cables}, NextOrdinal = 1 + n
            PROVE  NextOrdinal \in Nat /\ NextOrdinal <= spawned
        BY <3>5, <3>6
      <3> QED
        BY <3>2, <3>4, <3>6, Zenon
    <2> QED
      BY <2>1, <2>2
  <1>2. transform \in Transforms
    BY DEF ConnectCable, Accepts, Transforms, SameKind
  <1>3. cable \in Cable /\ cable.id = spawned + 1 /\ cable.source = s /\ cable.target = t
        /\ cable.ordinal <= spawned
    BY <1>1, <1>2 DEF Cable, IndexInv
  <1> HIDE DEF cable
  <1>4. /\ cables' = cables \cup {cable} /\ spawned' = spawned + 1
        /\ by_source' = [by_source EXCEPT ![s] = @ \cup {cable.id}]
        /\ by_target' = [by_target EXCEPT ![t] = @ \cup {cable.id}]
    BY DEF ConnectCable, cable
  <1>5. cables' \subseteq Cable /\ IsFiniteSet(cables')
    BY <1>3, <1>4, FS_AddElement DEF IndexInv
  <1>6. EntitiesApart(cables') /\ spawned' \in Nat
        /\ \A c \in cables' : c.id <= spawned' /\ c.ordinal < spawned'
    <2>1. /\ \A c \in cables : c.id \in Nat /\ c.id <= spawned
          /\ \A c \in cables : c.ordinal \in Nat /\ c.ordinal < spawned
          /\ cable.ordinal \in Nat
      BY <1>3 DEF IndexInv, Cable
    <2> QED
      BY <1>3, <1>4, <2>1 DEF IndexInv, EntitiesApart
  <1>7. by_source' = SourceIndex(cables')
    <2>1. ASSUME NEW p \in Ports PROVE by_source'[p] = SourceIndex(cables')[p]
      BY <1>3, <1>4 DEF IndexInv, SourceIndex, EntityOf
    <2> QED
      BY <1>4, <2>1 DEF IndexInv, SourceIndex
  <1>8. by_target' = TargetIndex(cables')
    <2>1. ASSUME NEW p \in Ports PROVE by_target'[p] = TargetIndex(cables')[p]
      BY <1>3, <1>4 DEF IndexInv, TargetIndex, EntityOf, FanIn
    <2> QED
      BY <1>4, <2>1 DEF IndexInv, TargetIndex
  <1> QED
    BY <1>5, <1>6, <1>7, <1>8 DEF IndexInv

(* prepare_module_removal never finds cables and index at odds, after any  *)
(* sequence of edits, loads and restarts.                                  *)
THEOREM RemovalIsNeverRefused == Spec => []RemovalNeverRefused
  <1>1. Init => IndexInv
    BY FS_EmptySet DEF Init, IndexInv, SourceIndex, TargetIndex, EntityOf, FanIn, EntitiesApart
  <1>2. IndexInv /\ [Next]_vars => IndexInv'
    <2> SUFFICES ASSUME IndexInv, [Next]_vars PROVE IndexInv'
      OBVIOUS
    <2>1. ASSUME NEW patch \in Patches, Load(patch) PROVE IndexInv'
      BY <2>1, PatchesAssumption, FileIsFresh, FreshWorldIndexed DEF Load, PatchesAssumption
    <2>2. CASE Restart
      BY <2>2, SnapshotIsFresh, FreshWorldIndexed DEF Restart
    <2>3. ASSUME NEW s \in Ports, NEW t \in Ports, NEW transform \in Offered,
                 ConnectCable(s, t, transform)
          PROVE  IndexInv'
      BY <2>3, ConnectKeepsIndex
    <2>4. ASSUME NEW s \in Ports, NEW t \in Ports, NEW k, DisconnectCable(s, t, k)
          PROVE  IndexInv'
      <3>1. PICK c \in Between(s, t) : Unplug({c})
        BY <2>4 DEF DisconnectCable
      <3>2. {c} \subseteq cables /\ UNCHANGED spawned
        BY <2>4 DEF Between, DisconnectCable
      <3> QED
        BY <3>1, <3>2, UnplugKeepsIndex
    <2>5. ASSUME NEW m \in Modules, RemoveModule(m) PROVE IndexInv'
      <3>1. Incident(m) \subseteq cables
        BY DEF Incident
      <3> QED
        BY <2>5, <3>1, UnplugKeepsIndex DEF RemoveModule
    <2>6. CASE Sample
      BY <2>6 DEF Sample, graphVars, IndexInv
    <2>7. CASE UNCHANGED vars
      BY <2>7 DEF vars, graphVars, IndexInv
    <2> QED
      BY <2>1, <2>2, <2>3, <2>4, <2>5, <2>6, <2>7 DEF Next
  <1> QED
    BY <1>1, <1>2, IndexLetsGo, PTL DEF Spec
-----------------------------------------------------------------------------
(* check_patch_cycles finds a cycle exactly when there is one.             *)
SourceIn(S, edges) == \E m \in S : \A n \in S \ {m} : <<n, m>> \notin edges
Acyclic(ms, edges) == \A S \in (SUBSET ms) \ {{}} : SourceIn(S, edges)

(* The rounds of the search are well defined. *)
AreRounds(f, ms, edges, count) ==
  f = [i \in 0 .. count |-> IF i = 0 THEN {} ELSE Resolvable(ms, edges, f[i - 1])]

(* The rounds of the search are what their recursion says.                 *)
LEMMA RoundsExist ==
  ASSUME NEW ms, NEW edges, NEW count \in Nat
  PROVE  \E f : AreRounds(f, ms, edges, count)
  <1> DEFINE Rounds(f, k) == f = [i \in 0 .. k |->
                                   IF i = 0 THEN {} ELSE Resolvable(ms, edges, f[i - 1])]
             failing == {k \in Nat : ~ \E f : Rounds(f, k)}
  <1> USE DEF AreRounds
  <1> SUFFICES ASSUME failing # {} PROVE FALSE
    OBVIOUS
  <1>1. PICK k \in failing : \A j \in failing : k <= j
    <2>1. failing \subseteq Nat
      OBVIOUS
    <2> HIDE DEF failing
    <2> QED
      BY <2>1, LeastNatural
  <1>2. CASE k = 0
    <2>1. Rounds([i \in 0 .. 0 |-> {}], 0)
      OBVIOUS
    <2> QED
      BY <1>1, <1>2, <2>1
  <1>3. CASE k # 0
    <2>0. k \in Nat
      BY <1>1
    <2>1. k - 1 \in Nat /\ k - 1 \notin failing
      <3> HIDE DEF failing
      <3> QED
        BY <1>1, <1>3, <2>0
    <2>2. PICK g : Rounds(g, k - 1)
      BY <2>1
    <2> DEFINE f == [i \in 0 .. k |->
                       IF i = k THEN Resolvable(ms, edges, g[k - 1]) ELSE g[i]]
    <2>3. \A i \in 0 .. k - 1 :
            g[i] = IF i = 0 THEN {} ELSE Resolvable(ms, edges, g[i - 1])
      <3>1. \A i \in 0 .. k - 1 :
              [j \in 0 .. k - 1 |-> IF j = 0 THEN {} ELSE Resolvable(ms, edges, g[j - 1])][i]
                = IF i = 0 THEN {} ELSE Resolvable(ms, edges, g[i - 1])
        OBVIOUS
      <3> QED
        BY <2>2, <3>1, Zenon
    <2>4. \A i \in 0 .. k : f[i] = IF i = 0 THEN {} ELSE Resolvable(ms, edges, f[i - 1])
      <3> SUFFICES ASSUME NEW i \in 0 .. k
                   PROVE  f[i] = IF i = 0 THEN {} ELSE Resolvable(ms, edges, f[i - 1])
        OBVIOUS
      <3>1. CASE i = k
        <4>1. f[k] = Resolvable(ms, edges, g[k - 1]) /\ f[k - 1] = g[k - 1]
          BY <2>1, <1>3
        <4> QED
          BY <3>1, <1>3, <4>1
      <3>2. CASE i # k /\ i # 0
        <4>1. i \in 0 .. k - 1 /\ i - 1 \in 0 .. k - 1
          BY <2>1, <3>2
        <4>2. f[i] = g[i] /\ f[i - 1] = g[i - 1]
          BY <4>1, <2>1
        <4> QED
          BY <2>3, <3>2, <4>1, <4>2
      <3>3. CASE i # k /\ i = 0
        BY <2>1, <2>3, <3>3
      <3> QED
        BY <3>1, <3>2, <3>3
    <2>5. Rounds(f, k)
      BY <2>4
    <2> QED
      BY <1>1, <2>5
  <1> QED
    BY <1>2, <1>3

(* Each round resolves modules of the patch only.                          *)
LEMMA ResolvedRounds ==
  ASSUME NEW ms, NEW edges, IsFiniteSet(ms)
  PROVE  /\ Cardinality(ms) \in Nat
         /\ Resolved(ms, edges)[0] = {}
         /\ \A i \in 1 .. Cardinality(ms) :
              Resolved(ms, edges)[i] = Resolvable(ms, edges, Resolved(ms, edges)[i - 1])
  <1> DEFINE N == Cardinality(ms)
             R == Resolved(ms, edges)
  <1>1. N \in Nat
    BY FS_CardinalityType
  <1>2. R = [i \in 0 .. N |-> IF i = 0 THEN {} ELSE Resolvable(ms, edges, R[i - 1])]
    <2>1. \E f : AreRounds(f, ms, edges, Cardinality(ms))
      BY <1>1, RoundsExist
    <2>2. Resolved(ms, edges) =
            CHOOSE f : AreRounds(f, ms, edges, Cardinality(ms))
      BY Zenon DEF Resolved, AreRounds
    <2>3. AreRounds(Resolved(ms, edges), ms, edges, Cardinality(ms))
      BY <2>1, <2>2, Zenon
    <2> QED
      BY <2>3, Zenon DEF AreRounds
  <1> HIDE DEF R
  <1>3. \A i \in 0 .. N : R[i] = IF i = 0 THEN {} ELSE Resolvable(ms, edges, R[i - 1])
    <2>1. \A i \in 0 .. N :
            [j \in 0 .. N |-> IF j = 0 THEN {} ELSE Resolvable(ms, edges, R[j - 1])][i]
              = IF i = 0 THEN {} ELSE Resolvable(ms, edges, R[i - 1])
      OBVIOUS
    <2> QED
      BY <1>2, <2>1, Zenon
  <1>4. R[0] = {} /\ \A i \in 1 .. N : R[i] = Resolvable(ms, edges, R[i - 1])
    BY <1>1, <1>3
  <1> QED
    BY <1>1, <1>4 DEF R

(* A set of resolved modules has one that no other of the set feeds: the   *)
(* first that was resolved.                                                *)
LEMMA SearchIsSound ==
  ASSUME NEW ms, NEW edges, IsFiniteSet(ms), Resolved(ms, edges)[Cardinality(ms)] = ms
  PROVE  Acyclic(ms, edges)
  <1> DEFINE N == Cardinality(ms)
             R == Resolved(ms, edges)
  <1>0. N \in Nat /\ R[0] = {} /\ R[N] = ms
        /\ \A i \in 1 .. N : R[i] = Resolvable(ms, edges, R[i - 1])
    BY ResolvedRounds
  <1> HIDE DEF N, R
  <1> SUFFICES ASSUME NEW S \in (SUBSET ms) \ {{}} PROVE SourceIn(S, edges)
    BY DEF Acyclic
  <1> DEFINE reached == {i \in 0 .. N : \E m \in S : m \in R[i]}
  <1>1. PICK i \in reached : \A j \in reached : i <= j
    <2>1. reached \subseteq Nat /\ N \in reached
      BY <1>0
    <2> HIDE DEF reached
    <2> QED
      BY <2>1, LeastNatural
  <1>2. i \in 1 .. N /\ i - 1 \notin reached
    BY <1>0, <1>1
  <1>3. PICK m \in S : m \in Resolvable(ms, edges, R[i - 1])
    BY <1>0, <1>1, <1>2
  <1>4. \A n \in S : n \notin R[i - 1]
    BY <1>0, <1>2
  <1>5. \A n \in S \ {m} : <<n, m>> \notin edges
    BY <1>3, <1>4 DEF Resolvable
  <1> QED
    BY <1>5 DEF SourceIn

(* Without a cycle every round resolves another module until all are.      *)
LEMMA SearchIsComplete ==
  ASSUME NEW ms, NEW edges, IsFiniteSet(ms), Acyclic(ms, edges)
  PROVE  Resolved(ms, edges)[Cardinality(ms)] = ms
  <1> DEFINE N == Cardinality(ms)
             R == Resolved(ms, edges)
             Grown(i) == /\ R[i] \subseteq ms
                         /\ i > 0 => R[i - 1] \subseteq R[i]
                         /\ Cardinality(R[i]) >= i
             failing == {i \in 0 .. N : ~Grown(i)}
  <1>0. N \in Nat /\ R[0] = {}
        /\ \A i \in 1 .. N : R[i] = Resolvable(ms, edges, R[i - 1])
    BY ResolvedRounds
  <1> HIDE DEF N, R
  <1>1. failing = {}
    <2> SUFFICES ASSUME failing # {} PROVE FALSE
      OBVIOUS
    <2>1. PICK i \in failing : \A j \in failing : i <= j
      <3>1. failing \subseteq Nat
        BY <1>0
      <3> HIDE DEF failing
      <3> QED
        BY <3>1, LeastNatural
    <2>2. i # 0
      BY <1>0, <2>1, FS_EmptySet
    <2>3. i \in 1 .. N /\ i - 1 \in 0 .. N /\ Grown(i - 1)
      BY <1>0, <2>1, <2>2
    <2>4. R[i] = Resolvable(ms, edges, R[i - 1])
      BY <1>0, <2>3
    <2>5. R[i] \subseteq ms
      BY <2>4 DEF Resolvable
    <2>6. R[i - 1] \subseteq R[i]
      <3>1. CASE i - 1 = 0
        BY <1>0, <3>1
      <3>2. CASE i - 1 # 0
        <4>1. i - 1 \in 1 .. N
          BY <2>3, <3>2, <1>0
        <4>2. R[i - 1] = Resolvable(ms, edges, R[i - 1 - 1]) /\ R[i - 1 - 1] \subseteq R[i - 1]
          BY <1>0, <2>3, <4>1
        <4> QED
          BY <2>4, <4>2 DEF Resolvable
      <3> QED
        BY <3>1, <3>2
    <2>7. IsFiniteSet(R[i]) /\ IsFiniteSet(R[i - 1])
          /\ Cardinality(R[i]) \in Nat /\ Cardinality(R[i - 1]) \in Nat
      BY <2>3, <2>5, FS_Subset, FS_CardinalityType
    <2>8. CASE R[i - 1] = ms
      <3>1. Cardinality(R[i]) >= i
        <4>1. R[i] = ms
          BY <2>5, <2>6, <2>8
        <4>2. Cardinality(R[i]) = N
          BY <4>1 DEF N
        <4> QED
          BY <1>0, <2>3, <4>2
      <3> QED
        BY <2>1, <2>5, <2>6, <3>1
    <2>9. CASE R[i - 1] # ms
      <3>1. PICK m \in ms \ R[i - 1] : \A n \in (ms \ R[i - 1]) \ {m} : <<n, m>> \notin edges
        <4>1. ms \ R[i - 1] \in (SUBSET ms) \ {{}}
          BY <2>3, <2>9
        <4>2. SourceIn(ms \ R[i - 1], edges)
          BY <4>1, Zenon DEF Acyclic
        <4> QED
          BY <4>2, Zenon DEF SourceIn
      <3>2. m \in R[i]
        BY <2>4, <3>1 DEF Resolvable
      <3>3. Cardinality(R[i - 1]) < Cardinality(R[i])
        BY <2>6, <2>7, <3>1, <3>2, SmallerPart
      <3>4. Cardinality(R[i - 1]) >= i - 1
        BY <2>3
      <3>5. Cardinality(R[i]) >= i
        BY <2>3, <2>7, <3>3, <3>4
      <3> QED
        BY <2>1, <2>5, <2>6, <3>5
    <2> QED
      BY <2>8, <2>9
  <1>2. R[N] \subseteq ms /\ Cardinality(R[N]) >= N
    BY <1>0, <1>1
  <1>3. R[N] = ms
    <2>1. IsFiniteSet(R[N]) /\ Cardinality(R[N]) <= Cardinality(ms)
          /\ (Cardinality(ms) = Cardinality(R[N]) => ms = R[N])
      BY <1>2, FS_Subset
    <2>2. Cardinality(R[N]) \in Nat
      BY <2>1, FS_CardinalityType
    <2> QED
      BY <1>0, <1>2, <2>1, <2>2 DEF N
  <1> QED
    BY <1>3 DEF N, R

(* Fewer modules and fewer cables make no cycle. *)
LEMMA FewerEdges ==
  ASSUME NEW ms, NEW edges, NEW ns, NEW fewer, Acyclic(ms, edges),
         ns \subseteq ms, fewer \subseteq edges
  PROVE  Acyclic(ns, fewer)
  BY DEF Acyclic, SourceIn
-----------------------------------------------------------------------------
(* What validate_patch accepts, with acyclicity for the outcome of the     *)
(* search.                                                                 *)
Legal(ms, cs) ==
  /\ \A c \in cs : {Owner[c.source], Owner[c.target]} \subseteq ms
  /\ \A c \in cs : AcceptsLoaded(c.transform, Kind[c.source], Kind[c.target])
  /\ \A p \in Ports : Cardinality(FanIn(cs, p)) > 1 =>
       Policy[p] # "Reject" /\ IsValidFor(Policy[p], Kind[p])
  /\ Acyclic(ms, Edges(cs))

(* validate_patch refuses exactly what is not legal.                       *)
LEMMA ValidIsLegal ==
  ASSUME NEW ms \in SUBSET Modules, NEW cs
  PROVE  Valid(ms, cs) <=> Legal(ms, cs)
  <1>1. IsFiniteSet(ms)
    BY JacksAssumption, FS_Subset DEF JacksAssumption
  <1>2. CycleFree(ms, cs) <=> Acyclic(ms, Edges(cs))
    BY <1>1, SearchIsSound, SearchIsComplete DEF CycleFree
  <1> QED
    BY <1>2 DEF Valid, Legal

(* A legal graph stays legal when modules go with their cables.            *)
LEMMA FewerCables ==
  ASSUME NEW ms, NEW cs, Legal(ms, cs), IsFiniteSet(cs),
         NEW ns \in SUBSET ms, NEW ds \in SUBSET cs,
         \A c \in ds : {Owner[c.source], Owner[c.target]} \subseteq ns
  PROVE  Legal(ns, ds)
  <1>1. ASSUME NEW p \in Ports, Cardinality(FanIn(ds, p)) > 1
        PROVE  Policy[p] # "Reject" /\ IsValidFor(Policy[p], Kind[p])
    <2>1. FanIn(ds, p) \subseteq FanIn(cs, p) /\ FanIn(cs, p) \subseteq cs
      BY DEF FanIn
    <2>2. IsFiniteSet(FanIn(cs, p))
      BY <2>1, FS_Subset
    <2>3. IsFiniteSet(FanIn(ds, p)) /\ Cardinality(FanIn(ds, p)) <= Cardinality(FanIn(cs, p))
      BY <2>1, <2>2, FS_Subset
    <2>4. Cardinality(FanIn(ds, p)) \in Nat /\ Cardinality(FanIn(cs, p)) \in Nat
      BY <2>2, <2>3, FS_CardinalityType
    <2>5. Cardinality(FanIn(cs, p)) > 1
      BY <1>1, <2>3, <2>4
    <2> QED
      BY <2>5 DEF Legal
  <1>2. Acyclic(ns, Edges(ds))
    <2>1. Edges(ds) \subseteq Edges(cs)
      BY DEF Edges
    <2> QED
      BY <2>1, FewerEdges DEF Legal
  <1> QED
    BY <1>1, <1>2 DEF Legal

GraphInv == IndexInv /\ modules \subseteq Modules /\ Legal(modules, cables)

(* The snapshot of a legal graph is legal.                                 *)
LEMMA SnapshotIsLegal == GraphInv => Legal(modules, Snapshot)
  <1> SUFFICES ASSUME GraphInv PROVE Legal(modules, Snapshot)
    OBVIOUS
  <1>1. \A c \in cables : /\ Entity(c, Rank(c)).source = c.source
                          /\ Entity(c, Rank(c)).target = c.target
                          /\ Entity(c, Rank(c)).transform = c.transform
    BY DEF Entity
  <1>2. Edges(Snapshot) = Edges(cables)
    BY <1>1 DEF Edges, Snapshot
  <1>3. ASSUME NEW p \in Ports, Cardinality(FanIn(Snapshot, p)) > 1
        PROVE  Policy[p] # "Reject" /\ IsValidFor(Policy[p], Kind[p])
    <2> DEFINE f == [c \in FanIn(cables, p) |-> Entity(c, Rank(c))]
    <2>1. IsFiniteSet(FanIn(cables, p))
      <3>1. FanIn(cables, p) \subseteq cables
        BY DEF FanIn
      <3> QED
        BY <3>1, FS_Subset DEF GraphInv, IndexInv
    <2>2. {f[c] : c \in FanIn(cables, p)} = FanIn(Snapshot, p)
      BY <1>1 DEF FanIn, Snapshot
    <2>3. /\ IsFiniteSet({f[c] : c \in FanIn(cables, p)})
          /\ Cardinality({f[c] : c \in FanIn(cables, p)}) <= Cardinality(FanIn(cables, p))
      BY <2>1, FiniteImage
    <2> HIDE DEF f
    <2>4. /\ Cardinality(FanIn(cables, p)) \in Nat
          /\ Cardinality(FanIn(Snapshot, p)) \in Nat
      BY <2>1, <2>2, <2>3, FS_CardinalityType
    <2>5. Cardinality(FanIn(cables, p)) > 1
      BY <1>3, <2>2, <2>3, <2>4
    <2> QED
      BY <2>5 DEF GraphInv, Legal
  <1> QED
    BY <1>1, <1>2, <1>3 DEF GraphInv, Legal, Snapshot

(* What validate_patch let through is legal once it is loaded.             *)
LEMMA FreshWorldLegal ==
  ASSUME NEW ms \in SUBSET Modules, NEW cs, NEW count,
         FreshWorld(cs, count), Apply(ms, cs, count)
  PROVE  GraphInv'
  <1>1. Legal(ms, cs) /\ modules' = ms /\ cables' = cs
    BY ValidIsLegal DEF Apply
  <1> QED
    BY <1>1, FreshWorldIndexed DEF GraphInv, Legal, FanIn, Acyclic, SourceIn, Edges

(* Pulling cables out of a legal graph keeps it legal.                     *)
LEMMA UnplugKeepsLegal ==
  ASSUME GraphInv, NEW cs, cs \subseteq cables, Unplug(cs), UNCHANGED spawned,
         modules' \subseteq modules,
         \A c \in cables \ cs : {Owner[c.source], Owner[c.target]} \subseteq modules'
  PROVE  GraphInv'
  <1>1. IndexInv'
    BY UnplugKeepsIndex DEF GraphInv
  <1>2. cables' = cables \ cs
    BY DEF Unplug
  <1>3. Legal(modules', cables')
    BY <1>2, FewerCables DEF GraphInv, IndexInv
  <1> QED
    BY <1>1, <1>3 DEF GraphInv, Legal, FanIn, Acyclic, SourceIn, Edges

(* connect_cable keeps a legal graph legal.                                *)
LEMMA ConnectKeepsLegal ==
  ASSUME GraphInv, NEW s \in Ports, NEW t \in Ports, NEW transform,
         ConnectCable(s, t, transform)
  PROVE  GraphInv'
  <1> DEFINE cable == [id |-> spawned + 1, source |-> s, target |-> t,
                       transform |-> transform, ordinal |-> NextOrdinal]
  <1>1. /\ cable.source = s /\ cable.target = t /\ cable.transform = transform
        /\ cables' = cables \cup {cable} /\ modules' = modules
        /\ Owner[s] \in modules /\ Owner[t] \in modules
        /\ Accepts(transform, Kind[s], Kind[t])
        /\ IsValidFor(Policy[t], Kind[t])
        /\ Policy[t] = "Reject" => FanIn(cables, t) = {}
        /\ CycleFree(modules, cables \cup {cable})
    BY DEF ConnectCable, Present
  <1> HIDE DEF cable
  <1>2. AcceptsLoaded(transform, Kind[s], Kind[t])
    BY <1>1 DEF Accepts, AcceptsLoaded, SameKind
  <1>3. ASSUME NEW p \in Ports, Cardinality(FanIn(cables', p)) > 1
        PROVE  Policy[p] # "Reject" /\ IsValidFor(Policy[p], Kind[p])
    <2>1. CASE p # t
      <3>1. FanIn(cables', p) = FanIn(cables, p)
        BY <1>1, <2>1 DEF FanIn
      <3> QED
        BY <1>3, <3>1 DEF GraphInv, Legal
    <2>2. CASE p = t /\ Policy[t] = "Reject"
      <3>1. FanIn(cables', p) = {cable}
        BY <1>1, <2>2 DEF FanIn
      <3>2. Cardinality({cable}) = 1
        BY FS_Singleton
      <3> QED
        BY <1>3, <3>1, <3>2
    <2>3. CASE p = t /\ Policy[t] # "Reject"
      BY <1>1, <2>3
    <2> QED
      BY <2>1, <2>2, <2>3
  <1>4. Acyclic(modules, Edges(cables'))
    <2>1. IsFiniteSet(modules)
      BY JacksAssumption, FS_Subset DEF GraphInv, JacksAssumption
    <2> QED
      BY <1>1, <2>1, SearchIsSound DEF CycleFree
  <1>5. \A c \in cables' : /\ {Owner[c.source], Owner[c.target]} \subseteq modules
                           /\ AcceptsLoaded(c.transform, Kind[c.source], Kind[c.target])
    BY <1>1, <1>2 DEF GraphInv, Legal
  <1>6. IndexInv'
    BY ConnectKeepsIndex DEF GraphInv
  <1>7. Legal(modules, cables')
    BY <1>3, <1>4, <1>5 DEF Legal
  <1> QED
    BY <1>1, <1>6, <1>7 DEF GraphInv, Legal, FanIn, Acyclic, SourceIn, Edges

(* A world without cables is legal.                                        *)
LEMMA LegalAtFirst == Init => GraphInv
  <1> SUFFICES ASSUME Init PROVE GraphInv
    OBVIOUS
  <1>1. IndexInv
    BY FS_EmptySet DEF Init, IndexInv, SourceIndex, TargetIndex, EntityOf, FanIn, EntitiesApart
  <1>2. Legal(modules, cables)
    <2>1. \A p \in Ports : Cardinality(FanIn(cables, p)) = 0
      <3>1. \A p \in Ports : FanIn(cables, p) = {}
        BY DEF Init, FanIn
      <3> QED
        BY <3>1, FS_EmptySet
    <2> QED
      BY <2>1 DEF Init, Legal, Acyclic
  <1> QED
    BY <1>1, <1>2 DEF Init, GraphInv

(* What each edit, load, restart and sample leaves of a legal graph.       *)
LEMMA LegalInEveryStep == GraphInv /\ [Next]_vars => GraphInv'
  <1> SUFFICES ASSUME GraphInv, [Next]_vars PROVE GraphInv'
    OBVIOUS
  <1>1. ASSUME NEW patch \in Patches, Load(patch) PROVE GraphInv'
    BY <1>1, PatchesAssumption, FileIsFresh, FreshWorldLegal DEF Load, PatchesAssumption
  <1>2. CASE Restart
    BY <1>2, SnapshotIsFresh, FreshWorldLegal DEF Restart, GraphInv
  <1>3. ASSUME NEW s \in Ports, NEW t \in Ports, NEW transform \in Offered,
               ConnectCable(s, t, transform)
        PROVE  GraphInv'
    BY <1>3, ConnectKeepsLegal
  <1>4. ASSUME NEW s \in Ports, NEW t \in Ports, NEW k, DisconnectCable(s, t, k)
        PROVE  GraphInv'
    <2>1. PICK c \in Between(s, t) : Unplug({c})
      BY <1>4 DEF DisconnectCable
    <2>2. {c} \subseteq cables /\ UNCHANGED <<spawned, modules>>
      BY <1>4 DEF Between, DisconnectCable
    <2>3. \A d \in cables \ {c} : {Owner[d.source], Owner[d.target]} \subseteq modules'
      BY <2>2 DEF GraphInv, Legal
    <2> QED
      BY <2>1, <2>2, <2>3, UnplugKeepsLegal
  <1>5. ASSUME NEW m \in Modules, RemoveModule(m) PROVE GraphInv'
    <2>1. /\ Incident(m) \subseteq cables /\ Unplug(Incident(m)) /\ UNCHANGED spawned
          /\ modules' = modules \ {m}
      BY <1>5 DEF Incident, RemoveModule
    <2>2. \A c \in cables \ Incident(m) : {Owner[c.source], Owner[c.target]} \subseteq modules'
      BY <2>1 DEF GraphInv, Legal, Incident
    <2> QED
      BY <2>1, <2>2, UnplugKeepsLegal
  <1>6. CASE Sample
    BY <1>6 DEF Sample, graphVars, GraphInv, IndexInv, Legal, FanIn, Acyclic, SourceIn, Edges
  <1>7. CASE UNCHANGED vars
    BY <1>7 DEF vars, graphVars, GraphInv, IndexInv, Legal, FanIn, Acyclic, SourceIn, Edges
  <1> QED
    BY <1>1, <1>2, <1>3, <1>4, <1>5, <1>6, <1>7 DEF Next

(* The cables of a live graph are always ones validate_patch would accept. *)
THEOREM GraphIsAlwaysLegal == Spec => []GraphInv
  BY LegalAtFirst, LegalInEveryStep, PTL DEF Spec

(* No sequence of connections, removals, loads and restarts closes a cycle *)
(* or crowds an input of policy Reject.                                    *)
THEOREM GraphStaysLegal == Spec => []GraphIsLegal
  <1>1. GraphInv => GraphIsLegal
    <2> SUFFICES ASSUME GraphInv PROVE GraphIsLegal
      OBVIOUS
    <2>1. ASSUME NEW p \in Ports, Policy[p] = "Reject" PROVE Cardinality(FanIn(cables, p)) <= 1
      <3>1. FanIn(cables, p) \subseteq cables
        BY DEF FanIn
      <3>2. IsFiniteSet(FanIn(cables, p))
        BY <3>1, FS_Subset DEF GraphInv, IndexInv
      <3>3. Cardinality(FanIn(cables, p)) \in Nat
        BY <3>2, FS_CardinalityType
      <3>4. ~ (Cardinality(FanIn(cables, p)) > 1)
        BY <2>1 DEF GraphInv, Legal
      <3> QED
        BY <3>3, <3>4
    <2>2. \A S \in (SUBSET modules) \ {{}} : SourceIn(S, Edges(cables))
      BY DEF GraphInv, Legal, Acyclic
    <2> QED
      BY <2>1, <2>2 DEF GraphIsLegal, SourceIn
  <1> QED
    BY <1>1, GraphIsAlwaysLegal, PTL

(* What restart() snapshots is always accepted when it is loaded again.    *)
THEOREM RestartIsNeverRefused == Spec => []RestartNeverRefused
  <1>1. GraphInv => RestartNeverRefused
    BY SnapshotIsLegal, ValidIsLegal DEF GraphInv, RestartNeverRefused
  <1> QED
    BY <1>1, GraphIsAlwaysLegal, PTL
-----------------------------------------------------------------------------
(* The graph view.  Once its messages are read, a graph g with messages m  *)
(* will be the view of modules ms and cables cs: the indices and the       *)
(* entities of its edges tell each other apart, entities are those the     *)
(* world has made, and what waits in two queues for one cable ends as the  *)
(* schedule reads them.                                                    *)
Indexed(g) ==
  /\ \A a \in DOMAIN g.edge_by_entity : /\ g.edge_by_entity[a] \in DOMAIN g.edges
                                        /\ g.edges[g.edge_by_entity[a]].cable = a
  /\ \A i \in DOMAIN g.edges : /\ g.edges[i].cable \in DOMAIN g.edge_by_entity
                               /\ g.edge_by_entity[g.edges[i].cable] = i

Following(g, m, ms, cs, count) ==
  /\ DOMAIN g = DOMAIN EmptyGraph /\ g.by_instance_name = g.nodes
  /\ Indexed(g)
  /\ ms = (g.nodes \cup m.added) \ m.removed
  /\ EntityOf(cs) = (DOMAIN g.edge_by_entity \cup EntityOf(m.connected))
                      \ EntityOf(m.disconnected)
  /\ DOMAIN g.edge_by_entity \cap EntityOf(m.connected) = {}
  /\ \A a \in DOMAIN g.edge_by_entity \cup EntityOf(m.connected) \cup EntityOf(m.disconnected) :
       a \in Nat /\ a <= count
  /\ m.connected \subseteq cs \cup m.disconnected /\ EntitiesApart(m.connected)
  /\ \A c \in cs : c.id \in DOMAIN g.edge_by_entity =>
                     g.edges[g.edge_by_entity[c.id]] = EdgeOf(c)

FollowInv == ~panicked => Following(graph, mail, modules, cables, spawned)

(* An edge of the index is found under its own entity only.                *)
LEMMA EdgesApart ==
  ASSUME NEW g, Indexed(g), NEW a \in DOMAIN g.edge_by_entity, NEW b \in DOMAIN g.edge_by_entity,
         g.edge_by_entity[a] = g.edge_by_entity[b]
  PROVE  a = b
  BY DEF Indexed

(* handle_module_added and handle_module_removed: of the cables that stay, *)
(* no edge is lost, whatever waits for them.                               *)
LEMMA RetiredFollows ==
  ASSUME NEW g, NEW m, NEW ms, NEW cs, NEW count, Following(g, m, ms, cs, count),
         \A c \in cs : Ends(c) \subseteq ms
  PROVE  LET p == Retired(Rostered(g, m), m) IN
         /\ DOMAIN p = DOMAIN EmptyGraph /\ p.nodes = ms /\ p.by_instance_name = ms
         /\ Indexed(p)
         /\ DOMAIN p.edge_by_entity \subseteq DOMAIN g.edge_by_entity
         /\ EntityOf(cs) = (DOMAIN p.edge_by_entity \cup EntityOf(m.connected))
                             \ EntityOf(m.disconnected)
         /\ \A c \in cs : c.id \in DOMAIN p.edge_by_entity =>
                            p.edges[p.edge_by_entity[c.id]] = EdgeOf(c)
  <1> DEFINE r == Rostered(g, m)
             p == Retired(r, m)
             gone == IncidentOf(r, m)
             forgotten == {r.edges[i].cable : i \in gone}
  <1>1. /\ DOMAIN r = DOMAIN EmptyGraph
        /\ r.nodes = g.nodes \cup m.added /\ r.by_instance_name = r.nodes
        /\ r.edges = g.edges /\ r.edge_by_entity = g.edge_by_entity
    BY DEF Following, Rostered, EmptyGraph
  <1>2. gone = Orphaned(r, m)
    BY DEF IncidentOf, Orphaned
  <1>3. /\ DOMAIN p = DOMAIN EmptyGraph
        /\ p.nodes = ms /\ p.by_instance_name = ms
        /\ p.edges = Restrict(g.edges, DOMAIN g.edges \ gone)
        /\ p.edge_by_entity = Restrict(g.edge_by_entity, DOMAIN g.edge_by_entity \ forgotten)
    <2> HIDE DEF r
    <2>1. ms = r.nodes \ m.removed
      BY <1>1 DEF Following
    <2>2. p = [r EXCEPT
                 !.nodes = @ \ m.removed,
                 !.by_instance_name = @ \ m.removed,
                 !.edges = Restrict(@, DOMAIN @ \ gone),
                 !.edge_by_entity = Restrict(@, DOMAIN @ \ forgotten)]
      BY <1>2 DEF Retired
    <2> HIDE DEF p, gone, forgotten
    <2> QED
      BY <1>1, <2>1, <2>2 DEF EmptyGraph
  <1>4. /\ DOMAIN p.edges = DOMAIN g.edges \ gone
        /\ \A i \in DOMAIN p.edges : p.edges[i] = g.edges[i]
        /\ DOMAIN p.edge_by_entity = DOMAIN g.edge_by_entity \ forgotten
        /\ \A a \in DOMAIN p.edge_by_entity : p.edge_by_entity[a] = g.edge_by_entity[a]
    <2> HIDE DEF p
    <2> QED
      BY <1>3 DEF Restrict
  <1>5. /\ gone \subseteq DOMAIN g.edges
        /\ forgotten = {g.edges[i].cable : i \in gone}
        /\ \A i \in gone : {g.edges[i].source, g.edges[i].target} \cap m.removed # {}
    BY <1>1 DEF IncidentOf
  <1> HIDE DEF r, p, gone, forgotten
  <1>6. Indexed(p)
    BY <1>4, <1>5 DEF Following, Indexed
  <1>7. ASSUME NEW c \in cs, c.id \in DOMAIN g.edge_by_entity
        PROVE  c.id \notin forgotten
    <2> SUFFICES ASSUME NEW i \in gone, c.id = g.edges[i].cable PROVE FALSE
      BY <1>5
    <2>1. g.edge_by_entity[c.id] = i
      BY <1>5 DEF Following, Indexed
    <2>2. g.edges[i] = EdgeOf(c)
      BY <1>7, <2>1 DEF Following
    <2>3. {Owner[c.source], Owner[c.target]} \cap m.removed # {}
      <3>1. g.edges[i].source = Owner[c.source] /\ g.edges[i].target = Owner[c.target]
        BY <2>2 DEF EdgeOf
      <3> QED
        BY <1>5, <3>1
    <2> QED
      BY <2>3 DEF Ends, Following
  <1>8. EntityOf(cs) = (DOMAIN p.edge_by_entity \cup EntityOf(m.connected))
                        \ EntityOf(m.disconnected)
    <2>1. \A a \in EntityOf(cs) : a \in DOMAIN g.edge_by_entity => a \notin forgotten
      BY <1>7 DEF EntityOf
    <2> QED
      BY <1>4, <2>1 DEF Following
  <1>9. \A c \in cs : c.id \in DOMAIN p.edge_by_entity =>
                         p.edges[p.edge_by_entity[c.id]] = EdgeOf(c)
    <2> SUFFICES ASSUME NEW c \in cs, c.id \in DOMAIN p.edge_by_entity
                 PROVE  p.edges[p.edge_by_entity[c.id]] = EdgeOf(c)
      OBVIOUS
    <2>1. c.id \in DOMAIN g.edge_by_entity /\ p.edge_by_entity[c.id] = g.edge_by_entity[c.id]
      BY <1>4
    <2>2. p.edge_by_entity[c.id] \in DOMAIN p.edges
      BY <1>6 DEF Indexed
    <2> QED
      BY <1>4, <2>1, <2>2 DEF Following
  <1> QED
    BY <1>3, <1>4, <1>6, <1>8, <1>9 DEF p, r

(* handle_cable_connected: every new cable has an edge of its own.         *)
LEMMA ConnectedFollows ==
  ASSUME NEW g, NEW m, NEW f, DOMAIN g = DOMAIN EmptyGraph, Indexed(g),
         DOMAIN g.edge_by_entity \cap EntityOf(m.connected) = {},
         EntitiesApart(m.connected), f \in Places(g, m)
  PROVE  LET q == Connected(g, m, f) IN
         /\ DOMAIN q = DOMAIN EmptyGraph
         /\ q.nodes = g.nodes /\ q.by_instance_name = g.by_instance_name
         /\ Indexed(q)
         /\ DOMAIN q.edge_by_entity = DOMAIN g.edge_by_entity \cup EntityOf(m.connected)
         /\ \A a \in DOMAIN g.edge_by_entity :
              q.edges[q.edge_by_entity[a]] = g.edges[g.edge_by_entity[a]]
         /\ \A c \in m.connected : q.edges[q.edge_by_entity[c.id]] = EdgeOf(c)
  <1> DEFINE q == Connected(g, m, f)
             ids == EntityOf(m.connected)
             added == {f[a] : a \in ids}
             at(i) == CHOOSE a \in ids : f[a] = i
  <1>1. /\ DOMAIN f = ids
        /\ \A a \in ids : f[a] \notin DOMAIN g.edges
        /\ \A a, b \in ids : f[a] = f[b] => a = b
    BY DEF Places, EntityOf
  <1>2. /\ DOMAIN q = DOMAIN EmptyGraph
        /\ q.nodes = g.nodes /\ q.by_instance_name = g.by_instance_name
        /\ q.edges = [i \in DOMAIN g.edges \cup added |->
                        IF i \in DOMAIN g.edges THEN g.edges[i] ELSE EdgeOf(CableOf(m, at(i)))]
        /\ q.edge_by_entity = [a \in ids \cup DOMAIN g.edge_by_entity |->
                                 IF a \in ids THEN f[a] ELSE g.edge_by_entity[a]]
    BY <1>1 DEF Connected, EmptyGraph
  <1>3. /\ DOMAIN q.edge_by_entity = DOMAIN g.edge_by_entity \cup ids
        /\ \A a \in ids : q.edge_by_entity[a] = f[a]
        /\ \A a \in DOMAIN g.edge_by_entity : q.edge_by_entity[a] = g.edge_by_entity[a]
    <2> HIDE DEF q
    <2> QED
      BY <1>1, <1>2
  <1>4. \A a \in ids : at(f[a]) = a
    BY <1>1
  <1>5. \A c \in m.connected : c.id \in ids /\ CableOf(m, c.id) = c
    BY DEF EntityOf, EntitiesApart, CableOf
  <1>6. /\ DOMAIN q.edges = DOMAIN g.edges \cup added
        /\ \A i \in DOMAIN g.edges : q.edges[i] = g.edges[i]
        /\ \A a \in ids : q.edges[f[a]] = EdgeOf(CableOf(m, a))
    <2> HIDE DEF q, at
    <2> QED
      BY <1>1, <1>2, <1>4
  <1>7. \A c \in m.connected : q.edges[q.edge_by_entity[c.id]] = EdgeOf(c)
    <2> HIDE DEF q, ids
    <2> QED
      BY <1>3, <1>5, <1>6
  <1>8. \A a \in ids : q.edges[f[a]].cable = a
    <2> SUFFICES ASSUME NEW a \in ids PROVE q.edges[f[a]].cable = a
      OBVIOUS
    <2>1. PICK c \in m.connected : a = c.id
      BY DEF EntityOf
    <2> HIDE DEF q, ids
    <2>2. q.edges[f[a]] = EdgeOf(c)
      BY <1>5, <1>6, <2>1
    <2> QED
      BY <2>1, <2>2 DEF EdgeOf
  <1>9. \A a \in DOMAIN g.edge_by_entity :
           q.edges[q.edge_by_entity[a]] = g.edges[g.edge_by_entity[a]]
    <2> HIDE DEF q, ids, added
    <2> QED
      BY <1>3, <1>6 DEF Indexed
  <1>10. Indexed(q)
    <2>1. ASSUME NEW a \in DOMAIN q.edge_by_entity
          PROVE  /\ q.edge_by_entity[a] \in DOMAIN q.edges
                 /\ q.edges[q.edge_by_entity[a]].cable = a
      <3>1. CASE a \in ids
        <4> HIDE DEF q
        <4> QED
          BY <1>3, <1>6, <1>8, <3>1
      <3>2. CASE a \in DOMAIN g.edge_by_entity
        <4> HIDE DEF q, ids, added
        <4> QED
          BY <1>3, <1>6, <1>9, <3>2 DEF Indexed
      <3> HIDE DEF q, ids, added
      <3> QED
        BY <1>3, <3>1, <3>2
    <2>2. ASSUME NEW i \in DOMAIN q.edges
          PROVE  /\ q.edges[i].cable \in DOMAIN q.edge_by_entity
                 /\ q.edge_by_entity[q.edges[i].cable] = i
      <3>1. CASE i \in DOMAIN g.edges
        <4> HIDE DEF q, ids, added
        <4> QED
          BY <1>3, <1>6, <3>1 DEF Indexed
      <3>2. ASSUME NEW a \in ids, i = f[a]
            PROVE  /\ q.edges[i].cable \in DOMAIN q.edge_by_entity
                   /\ q.edge_by_entity[q.edges[i].cable] = i
        <4> HIDE DEF q, ids, added
        <4> QED
          BY <1>3, <1>8, <3>2
      <3>3. i \in DOMAIN g.edges \/ \E a \in ids : i = f[a]
        <4> HIDE DEF q, ids
        <4> QED
          BY <1>6
      <3> HIDE DEF q, ids, added
      <3> QED
        BY <3>1, <3>2, <3>3
    <2> HIDE DEF q
    <2> QED
      BY <2>1, <2>2 DEF Indexed
  <1> HIDE DEF ids, added, at
  <1>11. ids = EntityOf(m.connected)
    BY DEF ids
  <1> QED
    BY <1>2, <1>3, <1>7, <1>9, <1>10, <1>11

(* handle_cable_disconnected: no other edge goes with that of a cable.     *)
LEMMA DisconnectedFollows ==
  ASSUME NEW g, NEW m, DOMAIN g = DOMAIN EmptyGraph, Indexed(g)
  PROVE  LET d == Disconnected(g, m) IN
         /\ d.nodes = g.nodes /\ d.by_instance_name = g.by_instance_name
         /\ DOMAIN d = DOMAIN EmptyGraph
         /\ Indexed(d)
         /\ DOMAIN d.edge_by_entity = DOMAIN g.edge_by_entity \ EntityOf(m.disconnected)
         /\ \A a \in DOMAIN d.edge_by_entity :
              d.edges[d.edge_by_entity[a]] = g.edges[g.edge_by_entity[a]]
  <1> DEFINE d == Disconnected(g, m)
             known == EntityOf(m.disconnected) \cap DOMAIN g.edge_by_entity
             freed == {g.edge_by_entity[a] : a \in known}
  <1>1. /\ DOMAIN d = DOMAIN EmptyGraph
        /\ d.nodes = g.nodes /\ d.by_instance_name = g.by_instance_name
        /\ d.edges = Restrict(g.edges, DOMAIN g.edges \ freed)
        /\ d.edge_by_entity = Restrict(g.edge_by_entity, DOMAIN g.edge_by_entity \ known)
    BY DEF Disconnected, EmptyGraph, EntityOf
  <1>2. /\ DOMAIN d.edges = DOMAIN g.edges \ freed
        /\ \A i \in DOMAIN d.edges : d.edges[i] = g.edges[i]
        /\ DOMAIN d.edge_by_entity = DOMAIN g.edge_by_entity \ known
        /\ \A a \in DOMAIN d.edge_by_entity : d.edge_by_entity[a] = g.edge_by_entity[a]
    <2> HIDE DEF d, freed, known
    <2> QED
      BY <1>1 DEF Restrict
  <1>3. DOMAIN d.edge_by_entity = DOMAIN g.edge_by_entity \ EntityOf(m.disconnected)
    BY <1>2
  <1> HIDE DEF d, known
  <1>4. \A a \in DOMAIN d.edge_by_entity : g.edge_by_entity[a] \notin freed
    BY <1>2, EdgesApart DEF known
  <1>5. Indexed(d)
    BY <1>2, <1>4 DEF Indexed
  <1>6. \A a \in DOMAIN d.edge_by_entity :
           d.edges[d.edge_by_entity[a]] = g.edges[g.edge_by_entity[a]]
    BY <1>2, <1>5 DEF Indexed
  <1> HIDE DEF freed
  <1> QED
    BY <1>1, <1>3, <1>5, <1>6 DEF d

(* After GraphMaintenance nothing waits and the graph is the world's.      *)
LEMMA MaintainFollows ==
  ASSUME NEW g, NEW m, NEW ms, NEW cs, NEW count, Following(g, m, ms, cs, count),
         EntitiesApart(cs), \A c \in cs : Ends(c) \subseteq ms,
         Maintain(g, m, ms), ~panicked'
  PROVE  mail' = NoMail /\ Following(graph', NoMail, ms, cs, count)
  <1> DEFINE p == Retired(Rostered(g, m), m)
  <1>1. PICK f \in Places(p, m) : graph' = Disconnected(Connected(p, m, f), m) /\ mail' = NoMail
    BY DEF Maintain
  <1>2. /\ DOMAIN p = DOMAIN EmptyGraph /\ p.nodes = ms /\ p.by_instance_name = ms
        /\ Indexed(p)
        /\ DOMAIN p.edge_by_entity \subseteq DOMAIN g.edge_by_entity
        /\ EntityOf(cs) = (DOMAIN p.edge_by_entity \cup EntityOf(m.connected))
                            \ EntityOf(m.disconnected)
        /\ \A c \in cs : c.id \in DOMAIN p.edge_by_entity =>
                           p.edges[p.edge_by_entity[c.id]] = EdgeOf(c)
    BY RetiredFollows
  <1> HIDE DEF p
  <1> DEFINE q == Connected(p, m, f)
  <1>3. /\ EntitiesApart(m.connected) /\ m.connected \subseteq cs \cup m.disconnected
        /\ DOMAIN p.edge_by_entity \cap EntityOf(m.connected) = {}
    BY <1>2 DEF Following
  <1>4. /\ DOMAIN q = DOMAIN EmptyGraph
        /\ q.nodes = ms /\ q.by_instance_name = ms
        /\ Indexed(q)
        /\ DOMAIN q.edge_by_entity = DOMAIN p.edge_by_entity \cup EntityOf(m.connected)
        /\ \A a \in DOMAIN p.edge_by_entity :
             q.edges[q.edge_by_entity[a]] = p.edges[p.edge_by_entity[a]]
        /\ \A c \in m.connected : q.edges[q.edge_by_entity[c.id]] = EdgeOf(c)
    BY <1>2, <1>3, ConnectedFollows
  <1> HIDE DEF q
  <1> DEFINE d == Disconnected(q, m)
  <1>5. /\ d.nodes = ms /\ d.by_instance_name = ms
        /\ DOMAIN d = DOMAIN EmptyGraph
        /\ Indexed(d)
        /\ DOMAIN d.edge_by_entity = DOMAIN q.edge_by_entity \ EntityOf(m.disconnected)
        /\ \A a \in DOMAIN d.edge_by_entity :
             d.edges[d.edge_by_entity[a]] = q.edges[q.edge_by_entity[a]]
    BY <1>4, DisconnectedFollows
  <1> HIDE DEF d
  <1>6. DOMAIN d.edge_by_entity = EntityOf(cs)
    BY <1>2, <1>4, <1>5
  <1>7. ASSUME NEW c \in cs PROVE d.edges[d.edge_by_entity[c.id]] = EdgeOf(c)
    <2>1. c.id \in EntityOf(cs) /\ c.id \notin EntityOf(m.disconnected)
      BY <1>2 DEF EntityOf
    <2>2. d.edges[d.edge_by_entity[c.id]] = q.edges[q.edge_by_entity[c.id]]
      BY <1>5, <1>6, <2>1
    <2>3. CASE c.id \in DOMAIN p.edge_by_entity
      BY <1>2, <1>4, <2>2, <2>3
    <2>4. CASE c.id \in EntityOf(m.connected)
      <3>1. PICK e \in m.connected : e.id = c.id
        BY <2>4 DEF EntityOf
      <3>2. e \in cs
        BY <1>3, <2>1, <3>1 DEF EntityOf
      <3>3. e = c
        BY <3>1, <3>2 DEF EntitiesApart
      <3> QED
        BY <1>4, <2>2, <3>1, <3>3
    <2> QED
      BY <1>2, <2>1, <2>3, <2>4
  <1>8. \A a \in EntityOf(cs) : a \in Nat /\ a <= count
    BY DEF Following
  <1>9. Following(d, NoMail, ms, cs, count)
    <2>1. EntityOf({}) = {} /\ EntitiesApart({})
      BY DEF EntityOf, EntitiesApart
    <2> QED
      BY <1>5, <1>6, <1>7, <1>8, <2>1 DEF Following, NoMail
  <1>10. graph' = d /\ mail' = NoMail
    BY <1>1 DEF d, q, p
  <1> QED
    BY <1>9, <1>10

(* What an edit leaves in the queues keeps up with what it does to the     *)
(* world: modules only go, and cables that come are new entities.          *)
LEMMA NewsFollow ==
  ASSUME IndexInv, Following(graph, mail, modules, cables, spawned),
         modules' \subseteq modules, spawned' \in Nat, spawned <= spawned',
         \A c \in cables' \ cables : c.id \in Nat /\ spawned < c.id /\ c.id <= spawned',
         EntitiesApart(cables')
  PROVE  Following(graph, NewsOfEdit, modules', cables', spawned')
  <1> DEFINE new == cables' \ cables
             gone == cables \ cables'
             news == NewsOfEdit
  <1>1. /\ news.added = mail.added /\ news.removed = mail.removed \cup (modules \ modules')
        /\ news.connected = mail.connected \cup new
        /\ news.disconnected = mail.disconnected \cup gone
    BY DEF NewsOfEdit
  <1>2. /\ EntityOf(news.connected) = EntityOf(mail.connected) \cup EntityOf(new)
        /\ EntityOf(news.disconnected) = EntityOf(mail.disconnected) \cup EntityOf(gone)
        /\ EntityOf(gone) \subseteq EntityOf(cables)
        /\ EntityOf(cables') = EntityOf(cables \cap cables') \cup EntityOf(new)
        /\ EntityOf(cables) = EntityOf(cables \cap cables') \cup EntityOf(gone)
        /\ EntityOf(cables \cap cables') \cap EntityOf(gone) = {}
    <2>1. EntityOf(cables \cap cables') \cap EntityOf(gone) = {}
      BY DEF EntityOf, IndexInv, EntitiesApart
    <2> HIDE DEF news
    <2> QED
      BY <1>1, <2>1 DEF EntityOf
  <1> HIDE DEF news
  <1> DEFINE known == DOMAIN graph.edge_by_entity
  <1>3. /\ \A a \in EntityOf(new) : a \in Nat /\ spawned < a /\ a <= spawned'
        /\ \A a \in known \cup EntityOf(mail.connected) \cup EntityOf(mail.disconnected) \cup EntityOf(cables) :
             a \in Nat /\ a <= spawned
        /\ spawned \in Nat
    BY DEF EntityOf, IndexInv, Following, Cable
  <1>4. \A a \in EntityOf(new) :
           a \notin known \cup EntityOf(mail.connected) \cup EntityOf(mail.disconnected) \cup EntityOf(cables)
    BY <1>3
  <1>5. EntityOf(cables) = (known \cup EntityOf(mail.connected)) \ EntityOf(mail.disconnected)
        /\ known \cap EntityOf(mail.connected) = {}
    BY DEF Following
  <1>6. EntityOf(cables') = (known \cup EntityOf(news.connected)) \ EntityOf(news.disconnected)
    <2> HIDE DEF known, new, gone
    <2> QED
      BY <1>2, <1>4, <1>5
  <1>7. known \cap EntityOf(news.connected) = {}
    <2> HIDE DEF known, new, gone
    <2> QED
      BY <1>2, <1>4, <1>5
  <1>8. \A a \in known \cup EntityOf(news.connected) \cup EntityOf(news.disconnected) :
           a \in Nat /\ a <= spawned'
    <2> HIDE DEF known, new, gone
    <2> QED
      BY <1>2, <1>3
  <1>9. news.connected \subseteq cables' \cup news.disconnected
    BY <1>1 DEF Following
  <1>10. EntitiesApart(news.connected)
    <2>1. \A c \in mail.connected : c.id \in EntityOf(mail.connected)
      BY DEF EntityOf
    <2>2. \A c \in new : c.id \in EntityOf(new) /\ c \in cables'
      BY DEF EntityOf
    <2>3. EntitiesApart(mail.connected)
      BY DEF Following
    <2> HIDE DEF known, new
    <2> QED
      BY <1>1, <1>4, <2>1, <2>2, <2>3 DEF EntitiesApart
  <1>11. \A c \in cables' : c.id \in known => graph.edges[graph.edge_by_entity[c.id]] = EdgeOf(c)
    <2>1. ASSUME NEW c \in cables', c.id \in known PROVE c \in cables
      BY <1>4, <2>1 DEF EntityOf
    <2> QED
      BY <2>1 DEF Following
  <1>12. modules' = (graph.nodes \cup news.added) \ news.removed
    BY <1>1 DEF Following
  <1>13. DOMAIN graph = DOMAIN EmptyGraph /\ graph.by_instance_name = graph.nodes /\ Indexed(graph)
    BY DEF Following
  <1> HIDE DEF known, new, gone
  <1> QED
    BY <1>6, <1>7, <1>8, <1>9, <1>10, <1>11, <1>12, <1>13 DEF Following, known, news

(* The edits of a live graph meet those conditions.                        *)
LEMMA EditFollows ==
  ASSUME GraphInv, Following(graph, mail, modules, cables, spawned), Edit
  PROVE  Following(graph, NewsOfEdit, modules', cables', spawned') /\ GraphInv'
  <1>1. GraphInv' /\ IndexInv /\ IndexInv'
    BY LegalInEveryStep DEF Edit, Next, GraphInv
  <1>2. EntitiesApart(cables') /\ spawned' \in Nat /\ spawned \in Nat
    BY <1>1 DEF IndexInv
  <1>3. ASSUME NEW s \in Ports, NEW t \in Ports, NEW transform \in Offered,
               ConnectCable(s, t, transform)
        PROVE  Following(graph, NewsOfEdit, modules', cables', spawned')
    <2>1. /\ modules' = modules /\ spawned' = spawned + 1
          /\ \A c \in cables' \ cables : c.id = spawned + 1
      BY <1>3 DEF ConnectCable
    <2> QED
      BY <1>1, <1>2, <2>1, NewsFollow
  <1>4. ASSUME NEW s \in Ports, NEW t \in Ports, NEW k, DisconnectCable(s, t, k)
        PROVE  Following(graph, NewsOfEdit, modules', cables', spawned')
    <2>1. modules' = modules /\ spawned' = spawned /\ cables' \subseteq cables
      BY <1>4 DEF DisconnectCable, Unplug
    <2> QED
      BY <1>1, <1>2, <2>1, NewsFollow
  <1>5. ASSUME NEW m \in Modules, RemoveModule(m)
        PROVE  Following(graph, NewsOfEdit, modules', cables', spawned')
    <2>1. modules' \subseteq modules /\ spawned' = spawned /\ cables' \subseteq cables
      BY <1>5 DEF RemoveModule, Unplug
    <2> QED
      BY <1>1, <1>2, <2>1, NewsFollow
  <1> QED
    BY <1>1, <1>3, <1>4, <1>5 DEF Edit

(* A fresh world announces all it has to an empty graph.                   *)
LEMMA LoadFollows ==
  ASSUME GraphInv, NewLife
  PROVE  Following(EmptyGraph, NewsOfLoad, modules', cables', spawned') /\ GraphInv'
  <1>1. GraphInv' /\ IndexInv'
    BY LegalInEveryStep DEF NewLife, Next, GraphInv
  <1>2. EntitiesApart(cables') /\ \A a \in EntityOf(cables') : a \in Nat /\ a <= spawned'
    BY <1>1 DEF IndexInv, EntityOf, Cable
  <1>3. /\ NewsOfLoad.added = modules' /\ NewsOfLoad.removed = {}
        /\ NewsOfLoad.connected = cables' /\ NewsOfLoad.disconnected = {}
    BY DEF NewsOfLoad, NoMail
  <1>4. /\ DOMAIN EmptyGraph.edge_by_entity = {} /\ DOMAIN EmptyGraph.edges = {}
        /\ EmptyGraph.nodes = {} /\ EmptyGraph.by_instance_name = {}
    BY DEF EmptyGraph
  <1>5. EntityOf({}) = {}
    BY DEF EntityOf
  <1> QED
    BY <1>1, <1>2, <1>3, <1>4, <1>5 DEF Following, Indexed

(* Cables of a legal graph end at modules that are there.                  *)
LEMMA EndsPresent ==
  ASSUME GraphInv
  PROVE  EntitiesApart(cables) /\ \A c \in cables : Ends(c) \subseteq modules
  BY DEF GraphInv, IndexInv, Legal, Ends

(* On return from every facade call, and after every Update, however many  *)
(* edits it reads at once and in whatever order they were made, the graph  *)
(* view is the world's.                                                    *)
THEOREM ViewFollowsWorld == GraphSpec => []GraphFollows
  <1> DEFINE Inv == GraphInv /\ FollowInv
  <1>1. GraphInit => Inv
    <2> SUFFICES ASSUME GraphInit PROVE Inv
      OBVIOUS
    <2>1. /\ modules = {} /\ cables = {} /\ graph = EmptyGraph /\ mail = NoMail /\ spawned = 0
          /\ GraphInv
      BY LegalAtFirst DEF GraphInit, Init
    <2>2. EntityOf({}) = {} /\ EntitiesApart({})
      BY DEF EntityOf, EntitiesApart
    <2> QED
      BY <2>1, <2>2 DEF FollowInv, Following, Indexed, EmptyGraph, NoMail
  <1>2. Inv /\ [GraphNext]_<<vars, viewVars>> => Inv'
    <2> SUFFICES ASSUME Inv, [GraphNext]_<<vars, viewVars>> PROVE Inv'
      OBVIOUS
    <2>1. CASE UNCHANGED <<vars, viewVars>>
      <3>1. UNCHANGED <<graph, mail, panicked, modules, cables, spawned>> /\ UNCHANGED vars
        BY <2>1 DEF vars, graphVars, viewVars
      <3>2. GraphInv'
        BY <3>1, LegalInEveryStep
      <3> QED
        BY <3>1, <3>2 DEF FollowInv, Following, Indexed
    <2>2. CASE GraphNext
      <3>1. ~panicked /\ Following(graph, mail, modules, cables, spawned)
        BY <2>2 DEF GraphNext, FollowInv
      <3>2. ASSUME GraphInv', ~panicked' => Following(graph', mail', modules', cables', spawned')
            PROVE  Inv'
        BY <3>2 DEF FollowInv
      <3>3. CASE FacadeEdit
        <4>1. Following(graph, NewsOfEdit, modules', cables', spawned') /\ GraphInv'
          BY <3>1, <3>3, EditFollows DEF FacadeEdit
        <4>2. EntitiesApart(cables') /\ \A c \in cables' : Ends(c) \subseteq modules'
          BY <4>1 DEF GraphInv, IndexInv, Legal, Ends
        <4>3. Maintain(graph, NewsOfEdit, modules')
          BY <3>3 DEF FacadeEdit
        <4>4. ~panicked' => mail' = NoMail /\ Following(graph', NoMail, modules', cables', spawned')
          BY <4>1, <4>2, <4>3, MaintainFollows
        <4> QED
          BY <3>2, <4>1, <4>4
      <3>4. CASE FacadeLoad
        <4>1. Following(EmptyGraph, NewsOfLoad, modules', cables', spawned') /\ GraphInv'
          BY <3>4, LoadFollows DEF FacadeLoad
        <4>2. EntitiesApart(cables') /\ \A c \in cables' : Ends(c) \subseteq modules'
          BY <4>1 DEF GraphInv, IndexInv, Legal, Ends
        <4>3. Maintain(EmptyGraph, NewsOfLoad, modules')
          BY <3>4 DEF FacadeLoad
        <4>4. ~panicked' => mail' = NoMail /\ Following(graph', NoMail, modules', cables', spawned')
          BY <4>1, <4>2, <4>3, MaintainFollows
        <4> QED
          BY <3>2, <4>1, <4>4
      <3>5. CASE RawEdit
        <4>1. Following(graph, NewsOfEdit, modules', cables', spawned') /\ GraphInv'
          BY <3>1, <3>5, EditFollows DEF RawEdit
        <4> QED
          BY <3>2, <3>5, <4>1 DEF RawEdit
      <3>6. CASE RawLoad
        <4>1. Following(EmptyGraph, NewsOfLoad, modules', cables', spawned') /\ GraphInv'
          BY <3>6, LoadFollows DEF RawLoad
        <4> QED
          BY <3>2, <3>6, <4>1 DEF RawLoad
      <3>7. CASE Update
        <4>1. UNCHANGED vars /\ Maintain(graph, mail, modules)
          BY <3>7 DEF Update
        <4>2. UNCHANGED <<modules, cables, spawned>> /\ GraphInv'
          BY <4>1, LegalInEveryStep DEF vars, graphVars
        <4>3. ~panicked' => mail' = NoMail /\ Following(graph', NoMail, modules, cables, spawned)
          BY <3>1, <4>1, EndsPresent, MaintainFollows
        <4> QED
          BY <3>2, <4>2, <4>3
      <3> QED
        BY <2>2, <3>3, <3>4, <3>5, <3>6, <3>7 DEF GraphNext
    <2> QED
      BY <2>1, <2>2
  <1>3. Inv => GraphFollows
    <2> SUFFICES ASSUME Inv, mail = NoMail, ~panicked PROVE GraphFollows
      BY DEF GraphFollows
    <2>1. Following(graph, NoMail, modules, cables, spawned)
      BY DEF FollowInv
    <2>2. /\ EntityOf({}) = {} /\ NoMail.added = {} /\ NoMail.removed = {}
          /\ NoMail.connected = {} /\ NoMail.disconnected = {}
      BY DEF EntityOf, NoMail
    <2>3. /\ graph.nodes = modules /\ graph.by_instance_name = modules
          /\ DOMAIN graph.edge_by_entity = EntityOf(cables) /\ Indexed(graph)
      BY <2>1, <2>2 DEF Following
    <2>4. \A c \in cables : c.id \in DOMAIN graph.edge_by_entity
      BY <2>3 DEF EntityOf
    <2>5. \A c \in cables : graph.edge_by_entity[c.id] \in DOMAIN graph.edges
                         /\ graph.edges[graph.edge_by_entity[c.id]] = EdgeOf(c)
      BY <2>1, <2>3, <2>4 DEF Following, Indexed
    <2>6. \A i \in DOMAIN graph.edges : \E c \in cables : graph.edge_by_entity[c.id] = i
      BY <2>3 DEF Indexed, EntityOf
    <2>7. EntityOf(cables) = {c.id : c \in cables}
      BY DEF EntityOf
    <2> QED
      BY <2>3, <2>5, <2>6, <2>7 DEF GraphFollows
  <1> QED
    BY <1>1, <1>2, <1>3, PTL DEF GraphSpec
-----------------------------------------------------------------------------
(* The places of the elements of a finite set in a strict total order.     *)
StrictOn(R, S) ==
  /\ \A x \in S : <<x, x>> \notin R
  /\ \A x, y, z \in S : <<x, y>> \in R /\ <<y, z>> \in R => <<x, z>> \in R
  /\ \A x, y \in S : x = y \/ <<x, y>> \in R \/ <<y, x>> \in R
Place(S, R, x) == Cardinality(Earlier(S, R, x))

(* Places are counted from zero and stay below the size of the set.        *)
LEMMA PlaceBounds ==
  ASSUME NEW S, IsFiniteSet(S), NEW R, StrictOn(R, S), NEW x \in S
  PROVE  /\ IsFiniteSet(Earlier(S, R, x)) /\ Cardinality(S) \in Nat
         /\ Place(S, R, x) \in Nat /\ Place(S, R, x) < Cardinality(S)
  <1>1. Earlier(S, R, x) \subseteq S /\ Earlier(S, R, x) # S
    BY DEF Earlier, StrictOn
  <1>2. IsFiniteSet(Earlier(S, R, x)) /\ Cardinality(Earlier(S, R, x)) < Cardinality(S)
    BY <1>1, SmallerPart
  <1> QED
    BY <1>2, FS_CardinalityType DEF Place

(* Places rise along the order, so they tell elements apart.               *)
LEMMA PlaceRises ==
  ASSUME NEW S, IsFiniteSet(S), NEW R, StrictOn(R, S), NEW x \in S, NEW y \in S,
         <<x, y>> \in R
  PROVE  Place(S, R, x) < Place(S, R, y)
  <1>1. Earlier(S, R, x) \subseteq Earlier(S, R, y)
    BY DEF Earlier, StrictOn
  <1>2. x \in Earlier(S, R, y) /\ x \notin Earlier(S, R, x)
    BY DEF Earlier, StrictOn
  <1>3. Earlier(S, R, x) # Earlier(S, R, y)
    BY <1>2
  <1>4. IsFiniteSet(Earlier(S, R, y))
    BY PlaceBounds
  <1> QED
    BY <1>1, <1>3, <1>4, SmallerPart DEF Place

(* No two elements share a place.                                          *)
LEMMA PlacesTellApart ==
  ASSUME NEW S, IsFiniteSet(S), NEW R, StrictOn(R, S), NEW x \in S, NEW y \in S,
         Place(S, R, x) = Place(S, R, y)
  PROVE  x = y
  <1>1. Place(S, R, x) \in Nat
    BY PlaceBounds
  <1>2. <<x, y>> \notin R /\ <<y, x>> \notin R
    BY <1>1, PlaceRises
  <1> QED
    BY <1>2 DEF StrictOn

(* Every place is taken.                                                   *)
LEMMA PlaceTaken ==
  ASSUME NEW S, IsFiniteSet(S), NEW R, StrictOn(R, S), NEW i \in 1 .. Cardinality(S)
  PROVE  \E x \in S : Place(S, R, x) = i - 1
  <1> DEFINE f == [x \in S |-> Place(S, R, x) + 1]
             T == 1 .. Cardinality(S)
  <1>0. Cardinality(S) \in Nat
    BY FS_CardinalityType
  <1>1. IsFiniteSet(T) /\ Cardinality(T) = Cardinality(S)
    BY <1>0, FS_Interval
  <1>2. \A x \in S : Place(S, R, x) \in Nat /\ Place(S, R, x) + 1 \in T
    BY <1>0, PlaceBounds
  <1>3. f \in [S -> T]
    BY <1>2
  <1>4. \A x, y \in S : f[x] = f[y] => x = y
    <2> SUFFICES ASSUME NEW x \in S, NEW y \in S, f[x] = f[y] PROVE x = y
      OBVIOUS
    <2>1. Place(S, R, x) = Place(S, R, y)
      BY <1>2
    <2> QED
      BY <2>1, PlacesTellApart
  <1>5. f \in Injection(S, T)
    <2> HIDE DEF f, T
    <2> QED
      BY <1>3, <1>4 DEF Injection, IsInjective
  <1>6. f \in Surjection(S, T)
    <2> HIDE DEF f, T
    <2> QED
      BY <1>1, <1>5, FS_Injection
  <1>7. \E x \in S : f[x] = i
    <2> HIDE DEF f
    <2> QED
      BY <1>6 DEF Surjection
  <1>8. PICK x \in S : Place(S, R, x) + 1 = i
    BY <1>7
  <1> QED
    BY <1>2, <1>8

(* What InOrder lists: each element, at its place.                         *)
LEMMA InOrderLists ==
  ASSUME NEW S, IsFiniteSet(S), NEW R, StrictOn(R, S)
  PROVE  /\ Cardinality(S) \in Nat /\ DOMAIN InOrder(S, R) = 1 .. Cardinality(S)
         /\ InOrder(S, R) \in Seq(S) /\ Len(InOrder(S, R)) = Cardinality(S)
         /\ \A i \in 1 .. Cardinality(S) :
              InOrder(S, R)[i] \in S /\ Place(S, R, InOrder(S, R)[i]) = i - 1
         /\ \A x \in S : /\ Place(S, R, x) + 1 \in 1 .. Cardinality(S)
                         /\ InOrder(S, R)[Place(S, R, x) + 1] = x
  <1>0. Cardinality(S) \in Nat
    BY FS_CardinalityType
  <1>1. InOrder(S, R) = [i \in 1 .. Cardinality(S) |-> InOrder(S, R)[i]]
    BY DEF InOrder
  <1>2. ASSUME NEW i \in 1 .. Cardinality(S)
        PROVE  InOrder(S, R)[i] \in S /\ Place(S, R, InOrder(S, R)[i]) = i - 1
    <2>1. InOrder(S, R)[i] = CHOOSE x \in S : Place(S, R, x) = i - 1
      BY DEF InOrder, Place
    <2>2. \E x \in S : Place(S, R, x) = i - 1
      BY PlaceTaken
    <2> QED
      BY <2>1, <2>2, Zenon
  <1>3. ASSUME NEW x \in S
        PROVE  /\ Place(S, R, x) + 1 \in 1 .. Cardinality(S)
               /\ InOrder(S, R)[Place(S, R, x) + 1] = x
    <2>1. Place(S, R, x) \in Nat /\ Place(S, R, x) + 1 \in 1 .. Cardinality(S)
      BY <1>0, PlaceBounds
    <2> DEFINE y == InOrder(S, R)[Place(S, R, x) + 1]
    <2>2. y \in S /\ Place(S, R, y) = (Place(S, R, x) + 1) - 1
      BY <1>2, <2>1
    <2> HIDE DEF y
    <2>3. Place(S, R, y) = Place(S, R, x)
      BY <2>1, <2>2
    <2>4. y = x
      BY <2>2, <2>3, PlacesTellApart
    <2> QED
      BY <2>1, <2>4 DEF y
  <1>4. InOrder(S, R) \in Seq(S) /\ Len(InOrder(S, R)) = Cardinality(S)
        /\ DOMAIN InOrder(S, R) = 1 .. Cardinality(S)
    <2> DEFINE e == InOrder(S, R)
    <2>1. e = [i \in 1 .. Cardinality(S) |-> e[i]] /\ \A i \in 1 .. Cardinality(S) : e[i] \in S
      BY <1>1, <1>2
    <2> HIDE DEF e
    <2>2. e \in [1 .. Cardinality(S) -> S]
      BY <2>1
    <2>3. e \in Seq(S) /\ Len(e) = Cardinality(S) /\ DOMAIN e = 1 .. Cardinality(S)
      BY <1>0, <2>2
    <2> QED
      BY <2>3 DEF e
  <1> QED
    BY <1>0, <1>2, <1>3, <1>4

(* Orders that a bijection carries into each other list the same.          *)
LEMMA SameOrder ==
  ASSUME NEW S, IsFiniteSet(S), NEW R, StrictOn(R, S),
         NEW T, NEW Q, StrictOn(Q, T), NEW f \in [S -> T],
         \A x, y \in S : <<x, y>> \in R => <<f[x], f[y]>> \in Q,
         \A z \in T : \E x \in S : f[x] = z
  PROVE  /\ IsFiniteSet(T) /\ Cardinality(T) = Cardinality(S)
         /\ \A x \in S : Place(T, Q, f[x]) = Place(S, R, x)
         /\ \A i \in 1 .. Cardinality(S) : f[InOrder(S, R)[i]] = InOrder(T, Q)[i]
  <1>1. \A x, y \in S : f[x] = f[y] => x = y
    BY DEF StrictOn
  <1>2. IsFiniteSet(T) /\ Cardinality(T) = Cardinality(S)
    <2>1. f \in Bijection(S, T)
      BY <1>1 DEF Bijection, Injection, IsInjective, Surjection
    <2> QED
      BY <2>1, FS_Bijection DEF ExistsBijection
  <1>3. ASSUME NEW x \in S PROVE Place(T, Q, f[x]) = Place(S, R, x)
    <2> DEFINE A == Earlier(S, R, x)
               B == Earlier(T, Q, f[x])
               g == [y \in A |-> f[y]]
    <2>1. \A y \in S : y \in A <=> f[y] \in B
      BY <1>1 DEF Earlier, StrictOn
    <2>2. A \subseteq S /\ B \subseteq T
      BY DEF Earlier
    <2>3. IsFiniteSet(A)
      BY PlaceBounds
    <2>4. Cardinality(B) = Cardinality(A)
      <3> HIDE DEF A, B
      <3>1. g \in [A -> B] /\ \A y, z \in A : g[y] = g[z] => y = z
        BY <1>1, <2>1, <2>2
      <3>2. \A z \in B : \E y \in A : g[y] = z
        BY <2>1, <2>2
      <3>3. g \in Bijection(A, B)
        <4> HIDE DEF g
        <4> QED
          BY <3>1, <3>2 DEF Bijection, Injection, IsInjective, Surjection
      <3> QED
        BY <2>3, <3>3, FS_Bijection DEF ExistsBijection
    <2> QED
      BY <2>4 DEF Place
  <1>4. ASSUME NEW i \in 1 .. Cardinality(S) PROVE f[InOrder(S, R)[i]] = InOrder(T, Q)[i]
    <2> DEFINE x == InOrder(S, R)[i]
               z == InOrder(T, Q)[i]
    <2>1. x \in S /\ Place(S, R, x) = i - 1
      BY InOrderLists
    <2>2. z \in T /\ Place(T, Q, z) = i - 1
      BY <1>2, InOrderLists
    <2> HIDE DEF x, z
    <2>3. f[x] = z
      BY <1>2, <1>3, <2>1, <2>2, PlacesTellApart
    <2> QED
      BY <2>3 DEF x, z
  <1> QED
    BY <1>2, <1>3, <1>4
-----------------------------------------------------------------------------
(* An element that comes after all others is listed last, and the others   *)
(* keep their places.                                                      *)
JoinsLast(S, R, x, T, Q) ==
  /\ IsFiniteSet(S) /\ StrictOn(R, S) /\ StrictOn(Q, T)
  /\ T = S \cup {x} /\ x \notin S
  /\ \A y, z \in S : <<y, z>> \in Q <=> <<y, z>> \in R
  /\ \A y \in S : <<y, x>> \in Q

(* Where the element that joins last ends up, and the others stay.         *)
LEMMA LastJoins ==
  ASSUME NEW S, NEW R, NEW x, NEW T, NEW Q, JoinsLast(S, R, x, T, Q)
  PROVE  /\ Cardinality(S) \in Nat /\ Cardinality(T) = Cardinality(S) + 1
         /\ \A i \in 1 .. Cardinality(S) : InOrder(T, Q)[i] = InOrder(S, R)[i]
         /\ InOrder(T, Q)[Cardinality(S) + 1] = x
  <1> USE DEF JoinsLast
  <1>1. IsFiniteSet(T) /\ Cardinality(T) = Cardinality(S) + 1 /\ Cardinality(S) \in Nat
    BY FS_AddElement, FS_CardinalityType
  <1>2. Place(T, Q, x) = Cardinality(S)
    <2>1. Earlier(T, Q, x) = S
      BY DEF Earlier, StrictOn
    <2> QED
      BY <2>1 DEF Place
  <1>3. \A y \in S : Place(T, Q, y) = Place(S, R, y)
    <2>1. \A y \in S : <<x, y>> \notin Q
      BY DEF StrictOn
    <2>2. \A y \in S : Earlier(T, Q, y) = Earlier(S, R, y)
      BY <2>1 DEF Earlier
    <2> QED
      BY <2>2 DEF Place
  <1>4. StrictOn(Q, T) /\ x \in T /\ \A y \in S : y \in T
    OBVIOUS
  <1>5. InOrder(T, Q)[Cardinality(S) + 1] = x
    BY <1>1, <1>2, <1>4, InOrderLists
  <1>6. ASSUME NEW i \in 1 .. Cardinality(S) PROVE InOrder(T, Q)[i] = InOrder(S, R)[i]
    <2> DEFINE y == InOrder(S, R)[i]
    <2>1. y \in S /\ Place(S, R, y) = i - 1
      BY InOrderLists
    <2> HIDE DEF y
    <2>2. Place(T, Q, y) + 1 = i
      <3>1. Place(T, Q, y) = i - 1
        BY <1>3, <2>1
      <3> QED
        BY <3>1
    <2>3. InOrder(T, Q)[Place(T, Q, y) + 1] = y
      BY <1>1, <1>4, <2>1, InOrderLists
    <2> QED
      BY <2>2, <2>3 DEF y
  <1> QED
    BY <1>1, <1>5, <1>6

(* An element that goes lets those behind it move up by one.               *)
LEMMA OneLeaves ==
  ASSUME NEW S, IsFiniteSet(S), NEW R, StrictOn(R, S), NEW x \in S,
         NEW Q, StrictOn(Q, S \ {x}),
         \A y, z \in S \ {x} : <<y, z>> \in Q <=> <<y, z>> \in R
  PROVE  /\ Cardinality(S) \in Nat /\ Cardinality(S \ {x}) = Cardinality(S) - 1
         /\ \A i \in 1 .. Cardinality(S) - 1 :
              InOrder(S \ {x}, Q)[i] =
                InOrder(S, R)[IF i <= Place(S, R, x) THEN i ELSE i + 1]
  <1> DEFINE T == S \ {x}
             k == Place(S, R, x)
  <1>1. IsFiniteSet(T) /\ Cardinality(T) = Cardinality(S) - 1 /\ Cardinality(S) \in Nat
    BY FS_RemoveElement, FS_CardinalityType
  <1>2. k \in Nat /\ k < Cardinality(S)
    BY PlaceBounds
  <1>3. ASSUME NEW y \in T
        PROVE  /\ Place(S, R, y) < k => Place(T, Q, y) = Place(S, R, y)
               /\ k < Place(S, R, y) => Place(T, Q, y) = Place(S, R, y) - 1
    <2>1. Earlier(T, Q, y) = Earlier(S, R, y) \ {x}
      BY DEF Earlier
    <2>2. IsFiniteSet(Earlier(S, R, y)) /\ Place(S, R, y) \in Nat
      BY PlaceBounds
    <2>3. Place(T, Q, y) =
            IF x \in Earlier(S, R, y) THEN Place(S, R, y) - 1 ELSE Place(S, R, y)
      BY <2>1, <2>2, FS_RemoveElement DEF Place
    <2>4. x \in Earlier(S, R, y) <=> <<x, y>> \in R
      BY DEF Earlier
    <2>5. <<x, y>> \in R => k < Place(S, R, y)
      BY PlaceRises
    <2>6. <<y, x>> \in R => Place(S, R, y) < k
      BY PlaceRises
    <2>7. <<x, y>> \in R \/ <<y, x>> \in R
      BY DEF StrictOn
    <2> HIDE DEF k, T
    <2> QED
      BY <1>2, <2>2, <2>3, <2>4, <2>5, <2>6, <2>7
  <1>4. ASSUME NEW i \in 1 .. Cardinality(S) - 1
        PROVE  InOrder(T, Q)[i] = InOrder(S, R)[IF i <= k THEN i ELSE i + 1]
    <2> DEFINE j == IF i <= k THEN i ELSE i + 1
               y == InOrder(S, R)[j]
    <2>1. j \in 1 .. Cardinality(S) /\ j - 1 # k
      BY <1>1, <1>2
    <2>2. y \in S /\ Place(S, R, y) = j - 1
      <3> HIDE DEF j
      <3> QED
        BY <2>1, InOrderLists
    <2>3. y # x
      <3> HIDE DEF y, j
      <3> QED
        BY <2>1, <2>2
    <2>4. y \in T
      BY <2>2, <2>3
    <2>5. Place(T, Q, y) + 1 = i
      <3>1. y \in S /\ y \in T
        BY <2>2, <2>4
      <3>2. i \in Int /\ k \in Int
        BY <1>2
      <3> HIDE DEF y, T, k
      <3>3. CASE i <= k
        BY <1>2, <1>3, <2>2, <3>1, <3>2, <3>3
      <3>4. CASE k < i
        BY <1>2, <1>3, <2>2, <3>1, <3>2, <3>4
      <3> QED
        BY <3>2, <3>3, <3>4
    <2>6. InOrder(T, Q)[Place(T, Q, y) + 1] = y
      <3> HIDE DEF y
      <3> QED
        BY <1>1, <2>4, InOrderLists
    <2> QED
      BY <2>5, <2>6
  <1> QED
    BY <1>1, <1>4

(* The orders in use are strict and total.                                 *)
LEMMA RisingIsStrict ==
  ASSUME NEW I, I \subseteq Nat
  PROVE  StrictOn(Rising(I), I)
  BY DEF StrictOn, Rising

(* Cables told apart can be put in order of age.                           *)
LEMMA AgesAreStrict ==
  ASSUME NEW cs, cs \subseteq Cable, EntitiesApart(cs)
  PROVE  StrictOn(Ages(cs), cs)
  <1>1. \A c \in cs : c.id \in Nat /\ c.ordinal \in Nat
    BY DEF Cable
  <1>2. \A c, d \in cs : <<c, d>> \in Ages(cs) <=> OlderThan(c, d)
    BY DEF Ages
  <1>3. \A c \in cs : ~OlderThan(c, c)
    BY <1>1 DEF OlderThan
  <1>4. \A c, d, e \in cs : OlderThan(c, d) /\ OlderThan(d, e) => OlderThan(c, e)
    BY <1>1 DEF OlderThan
  <1>5. \A c, d \in cs : c = d \/ OlderThan(c, d) \/ OlderThan(d, c)
    BY <1>1 DEF OlderThan, EntitiesApart
  <1> QED
    BY <1>2, <1>3, <1>4, <1>5 DEF StrictOn

(* Cables of one world can be put in propagation order.                    *)
LEMMA PropagationStrictOn ==
  ASSUME IndexInv
  PROVE  StrictOn(Propagation, cables)
  <1>1. \A c, d \in cables : <<c, d>> \in Propagation <=> PropagatesBefore(c, d)
    BY DEF Propagation
  <1>2. cables \subseteq Cable /\ \A c, d \in cables : c.id = d.id => c = d
    BY DEF IndexInv, EntitiesApart
  <1>3. \A c \in cables : ~PropagatesBefore(c, c)
    BY <1>2, PropagationIsStrict
  <1>4. \A c, d, e \in cables : PropagatesBefore(c, d) /\ PropagatesBefore(d, e)
                                  => PropagatesBefore(c, e)
    BY <1>2, PropagationIsStrict
  <1>5. \A c, d \in cables : c = d \/ PropagatesBefore(c, d) \/ PropagatesBefore(d, c)
    BY <1>2, PropagationIsStrict
  <1> QED
    BY <1>1, <1>3, <1>4, <1>5 DEF StrictOn

(* A line lists the transforms of its cables by age. *)
LEMMA LineIs ==
  ASSUME NEW cs, cs \subseteq Cable, IsFiniteSet(cs), EntitiesApart(cs), NEW e
  PROVE  /\ Strand(cs, e) \subseteq cs /\ IsFiniteSet(Strand(cs, e))
         /\ StrictOn(Ages(Strand(cs, e)), Strand(cs, e))
         /\ Cardinality(Strand(cs, e)) \in Nat
         /\ LineOf(cs, e) \in Seq(Transforms) /\ Len(LineOf(cs, e)) = Cardinality(Strand(cs, e))
         /\ DOMAIN LineOf(cs, e) = 1 .. Cardinality(Strand(cs, e))
         /\ \A i \in 1 .. Cardinality(Strand(cs, e)) :
              LineOf(cs, e)[i] = InOrder(Strand(cs, e), Ages(Strand(cs, e)))[i].transform
         /\ LineOf(cs, e) = <<>> <=> Strand(cs, e) = {}
  <1> DEFINE st == Strand(cs, e)
             sorted == InOrder(st, Ages(st))
             line == LineOf(cs, e)
  <1>1. st \subseteq cs /\ IsFiniteSet(st)
    <2>1. st \subseteq cs
      BY DEF Strand
    <2> QED
      BY <2>1, FS_Subset
  <1>2. StrictOn(Ages(st), st)
    <2>1. st \subseteq Cable /\ EntitiesApart(st)
      BY <1>1 DEF EntitiesApart
    <2> QED
      BY <2>1, AgesAreStrict
  <1>3. /\ Cardinality(st) \in Nat /\ DOMAIN sorted = 1 .. Cardinality(st)
        /\ \A i \in 1 .. Cardinality(st) : sorted[i] \in st
    <2> HIDE DEF st
    <2> QED
      BY <1>1, <1>2, InOrderLists
  <1>4. \A i \in 1 .. Cardinality(st) : sorted[i].transform \in Transforms
    <2>1. \A c \in st : c.transform \in Transforms
      BY <1>1 DEF Cable
    <2> HIDE DEF st
    <2> QED
      BY <1>3, <2>1
  <1>5. line = [i \in 1 .. Cardinality(st) |-> sorted[i].transform]
    BY <1>3 DEF LineOf
  <1>6. Cardinality(st) = 0 <=> st = {}
    BY <1>1, FS_EmptySet
  <1>7. st = Strand(cs, e) /\ sorted = InOrder(st, Ages(st)) /\ line = LineOf(cs, e)
    OBVIOUS
  <1> HIDE DEF st, sorted, line
  <1>8. line \in [1 .. Cardinality(st) -> Transforms]
    BY <1>4, <1>5
  <1>9. /\ line \in Seq(Transforms) /\ Len(line) = Cardinality(st)
        /\ DOMAIN line = 1 .. Cardinality(st)
        /\ \A i \in 1 .. Cardinality(st) : line[i] = sorted[i].transform
        /\ line = <<>> <=> Cardinality(st) = 0
    BY <1>3, <1>5, <1>8
  <1> QED
    BY <1>1, <1>2, <1>3, <1>6, <1>7, <1>9

(* Two lines are the same when their cables come one after another alike.  *)
LEMMA LinesAlike ==
  ASSUME NEW cs, cs \subseteq Cable, IsFiniteSet(cs), EntitiesApart(cs), NEW e,
         NEW line \in Seq(Transforms), Len(line) = Cardinality(Strand(cs, e)),
         \A i \in 1 .. Len(line) :
           line[i] = InOrder(Strand(cs, e), Ages(Strand(cs, e)))[i].transform
  PROVE  line = LineOf(cs, e)
  <1>1. LineOf(cs, e) \in Seq(Transforms) /\ Len(LineOf(cs, e)) = Len(line)
        /\ \A i \in 1 .. Len(line) : LineOf(cs, e)[i] = line[i]
    BY LineIs
  <1> HIDE DEF LineOf
  <1> QED
    BY <1>1

(* Cables a line does not have leave it alone. *)
LEMMA SameStrand ==
  ASSUME NEW cs, NEW ds, NEW e, Strand(cs, e) = Strand(ds, e)
  PROVE  LineOf(cs, e) = LineOf(ds, e)
  BY DEF LineOf

(* The cables of the world are ones that lines can be drawn from.          *)
LEMMA LegalCables ==
  IndexInv => cables \subseteq Cable /\ IsFiniteSet(cables) /\ EntitiesApart(cables)
  BY DEF IndexInv

(* The snapshot lists the cables of a line in their order, so a restart    *)
(* keeps every line.                                                       *)
LEMMA SnapshotKeepsLines == IndexInv => LinesOf(Snapshot) = LinesOf(cables)
  <1> SUFFICES ASSUME IndexInv, NEW e \in Ports \X Ports
               PROVE  LineOf(Snapshot, e) = LineOf(cables, e)
    BY DEF LinesOf
  <1> DEFINE S == Strand(cables, e)
             T == Strand(Snapshot, e)
             f == [c \in S |-> Entity(c, Rank(c))]
  <1>1. cables \subseteq Cable /\ IsFiniteSet(cables) /\ EntitiesApart(cables)
    BY LegalCables
  <1>2. Snapshot \subseteq Cable /\ IsFiniteSet(Snapshot) /\ EntitiesApart(Snapshot)
    BY SnapshotIsFresh DEF FreshWorld
  <1>3. \A c \in cables : /\ Entity(c, Rank(c)).source = c.source
                          /\ Entity(c, Rank(c)).target = c.target
                          /\ Entity(c, Rank(c)).transform = c.transform
                          /\ Entity(c, Rank(c)).ordinal = Rank(c) - 1
                          /\ Entity(c, Rank(c)).id = Rank(c)
    BY DEF Entity
  <1>4. S \subseteq cables /\ f \in [S -> T] /\ \A z \in T : \E c \in S : f[c] = z
    BY <1>3 DEF Strand, Snapshot
  <1>5. ASSUME NEW c \in S, NEW d \in S, <<c, d>> \in Ages(S)
        PROVE  <<f[c], f[d]>> \in Ages(T)
    <2>1. PropagatesBefore(c, d)
      BY <1>5 DEF PropagatesBefore, Ages, Strand
    <2>2. Rank(c) < Rank(d) /\ Rank(c) \in Nat /\ Rank(d) \in Nat
      <3>1. c \in cables /\ d \in cables /\ Cardinality(cables) \in Nat
        BY <1>1, <1>4, FS_CardinalityType
      <3> QED
        BY <2>1, <3>1, RankRises, RankOfCable
    <2>3. f[c].ordinal = Rank(c) - 1 /\ f[d].ordinal = Rank(d) - 1
      BY <1>3, <1>4
    <2>4. OlderThan(f[c], f[d])
      <3> HIDE DEF f
      <3> QED
        BY <2>2, <2>3 DEF OlderThan
    <2>5. f[c] \in T /\ f[d] \in T
      BY <1>4
    <2> HIDE DEF f, T
    <2> QED
      BY <2>4, <2>5 DEF Ages
  <1>6. /\ IsFiniteSet(S) /\ StrictOn(Ages(S), S) /\ StrictOn(Ages(T), T)
        /\ LineOf(cables, e) \in Seq(Transforms) /\ Len(LineOf(cables, e)) = Cardinality(S)
        /\ \A i \in 1 .. Cardinality(S) :
             /\ LineOf(cables, e)[i] = InOrder(S, Ages(S))[i].transform
             /\ InOrder(S, Ages(S))[i] \in S
    <2>1. /\ IsFiniteSet(S) /\ StrictOn(Ages(S), S)
          /\ LineOf(cables, e) \in Seq(Transforms) /\ Len(LineOf(cables, e)) = Cardinality(S)
          /\ \A i \in 1 .. Cardinality(S) : LineOf(cables, e)[i] = InOrder(S, Ages(S))[i].transform
      BY <1>1, LineIs
    <2>2. StrictOn(Ages(T), T)
      BY <1>2, LineIs
    <2>3. \A i \in 1 .. Cardinality(S) : InOrder(S, Ages(S))[i] \in S
      <3> HIDE DEF S
      <3> QED
        BY <2>1, InOrderLists
    <2> QED
      BY <2>1, <2>2, <2>3
  <1>7. /\ Cardinality(T) = Cardinality(S)
        /\ \A i \in 1 .. Cardinality(S) : f[InOrder(S, Ages(S))[i]] = InOrder(T, Ages(T))[i]
    <2>1. \A c, d \in S : <<c, d>> \in Ages(S) => <<f[c], f[d]>> \in Ages(T)
      BY <1>5
    <2> HIDE DEF S, T, f
    <2> QED
      BY <1>4, <1>6, <2>1, SameOrder
  <1>8. \A i \in 1 .. Cardinality(S) :
          LineOf(cables, e)[i] = InOrder(T, Ages(T))[i].transform
    <2>1. \A c \in S : f[c].transform = c.transform
      BY <1>3, <1>4
    <2> HIDE DEF S, T, f
    <2> QED
      BY <1>6, <1>7, <2>1
  <1>9. LineOf(cables, e) = LineOf(Snapshot, e)
    <2> DEFINE line == LineOf(cables, e)
    <2>1. line \in Seq(Transforms) /\ Len(line) = Cardinality(T)
          /\ \A i \in 1 .. Len(line) : line[i] = InOrder(T, Ages(T))[i].transform
      BY <1>6, <1>7, <1>8
    <2> HIDE DEF line
    <2>2. line = LineOf(Snapshot, e)
      BY <1>2, <2>1, LinesAlike
    <2> QED
      BY <2>2 DEF line
  <1> QED
    BY <1>9

(* A new cable is the youngest of all. *)
LEMMA NewestIsLast ==
  ASSUME IndexInv
  PROVE  NextOrdinal \in Nat /\ \A c \in cables : c.ordinal < NextOrdinal
  <1>1. CASE cables = {}
    BY <1>1 DEF NextOrdinal
  <1>2. CASE cables # {}
    <2> DEFINE top == CHOOSE n \in {c.ordinal : c \in cables} : \A c \in cables : c.ordinal <= n
    <2>1. \E c \in cables : \A d \in cables : d.ordinal <= c.ordinal
      BY <1>2, NewestCable
    <2>2. \E n \in {c.ordinal : c \in cables} : \A c \in cables : c.ordinal <= n
      BY <2>1
    <2>3. top \in {c.ordinal : c \in cables} /\ \A c \in cables : c.ordinal <= top
      BY <2>2, Zenon
    <2>4. NextOrdinal = 1 + top
      BY <1>2, Zenon DEF NextOrdinal
    <2> HIDE DEF top
    <2>5. top \in Nat /\ \A c \in cables : c.ordinal \in Nat
      BY <2>3 DEF IndexInv, Cable
    <2> QED
      BY <2>3, <2>4, <2>5
  <1> QED
    BY <1>1, <1>2

(* Every live connection joins the end of its line, and the occurrence it  *)
(* is told is its position there.                                          *)
LEMMA ConnectedLine ==
  ASSUME IndexInv, NEW s \in Ports, NEW t \in Ports, NEW transform,
         ConnectCable(s, t, transform)
  PROVE  /\ LinesOf(cables') =
              [LinesOf(cables) EXCEPT ![<<s, t>>] = Append(LineOf(cables, <<s, t>>), transform)]
         /\ reply' = Len(LineOf(cables, <<s, t>>))
  <1> DEFINE x == [id |-> spawned + 1, source |-> s, target |-> t,
                   transform |-> transform, ordinal |-> NextOrdinal]
             j == <<s, t>>
             S == Strand(cables, j)
             T == Strand(cables', j)
             n == Cardinality(S)
  <1>1. /\ x.source = s /\ x.target = t /\ x.transform = transform
        /\ x.ordinal = NextOrdinal /\ x.id = spawned + 1
        /\ cables' = cables \cup {x}
        /\ reply' = n
    BY DEF ConnectCable, Strand
  <1>2. transform \in Transforms
    BY DEF ConnectCable, Accepts, Transforms, SameKind
  <1>3. cables \subseteq Cable /\ IsFiniteSet(cables) /\ EntitiesApart(cables)
    BY LegalCables
  <1>4. cables' \subseteq Cable /\ IsFiniteSet(cables') /\ EntitiesApart(cables')
    <2>1. IndexInv'
      BY ConnectKeepsIndex
    <2> QED
      BY <2>1 DEF IndexInv, EntitiesApart
  <1>5. \A c \in cables : c.id # x.id /\ OlderThan(c, x)
    <2>1. spawned \in Nat /\ \A c \in cables : c.id \in Nat /\ c.id <= spawned
      BY DEF IndexInv, Cable
    <2>2. \A c \in cables : c.ordinal < x.ordinal
      BY <1>1, NewestIsLast
    <2> HIDE DEF x
    <2> QED
      BY <1>1, <2>1, <2>2 DEF OlderThan
  <1> HIDE DEF x
  <1>6. T = S \cup {x} /\ x \notin S /\ S \subseteq cables
    BY <1>1, <1>5 DEF Strand
  <1>7. /\ n \in Nat /\ Cardinality(T) = n + 1
        /\ \A i \in 1 .. n : InOrder(T, Ages(T))[i] = InOrder(S, Ages(S))[i]
        /\ InOrder(T, Ages(T))[n + 1] = x
    <2>1. IsFiniteSet(S) /\ StrictOn(Ages(S), S)
      BY <1>3, LineIs
    <2>2. StrictOn(Ages(T), T)
      BY <1>4, LineIs
    <2>3. /\ \A c, d \in S : <<c, d>> \in Ages(T) <=> <<c, d>> \in Ages(S)
          /\ \A c \in S : <<c, x>> \in Ages(T)
      <3> HIDE DEF S, T
      <3> QED
        BY <1>5, <1>6 DEF Ages
    <2> HIDE DEF S, T
    <2>4. JoinsLast(S, Ages(S), x, T, Ages(T))
      BY <1>6, <2>1, <2>2, <2>3 DEF JoinsLast
    <2> QED
      BY <2>4, LastJoins
  <1>8. LineOf(cables', j) = Append(LineOf(cables, j), transform)
    <2> DEFINE old == LineOf(cables, j)
               line == Append(old, transform)
    <2>1. /\ old \in Seq(Transforms) /\ Len(old) = n
          /\ \A i \in 1 .. n : old[i] = InOrder(S, Ages(S))[i].transform
      BY <1>3, LineIs
    <2> HIDE DEF old, S, T, n, j
    <2>2. line \in Seq(Transforms) /\ Len(line) = Cardinality(T)
          /\ \A i \in 1 .. Len(line) : line[i] = InOrder(T, Ages(T))[i].transform
      <3>1. line \in Seq(Transforms) /\ Len(line) = n + 1 /\ line[n + 1] = transform
            /\ \A i \in 1 .. n : line[i] = old[i]
        BY <1>2, <1>7, <2>1
      <3> HIDE DEF line
      <3>2. \A i \in 1 .. n : line[i] = InOrder(T, Ages(T))[i].transform
        BY <1>7, <2>1, <3>1
      <3>3. line[n + 1] = InOrder(T, Ages(T))[n + 1].transform
        BY <1>1, <1>7, <3>1
      <3>4. \A i \in 1 .. n + 1 : i \in 1 .. n \/ i = n + 1
        BY <1>7
      <3> QED
        BY <1>7, <3>1, <3>2, <3>3, <3>4
    <2> HIDE DEF line
    <2>3. line = LineOf(cables', j)
      BY <1>4, <2>2, LinesAlike DEF T
    <2> QED
      BY <2>3 DEF line, old
  <1>9. ASSUME NEW e \in Ports \X Ports, e # j
        PROVE  LineOf(cables', e) = LineOf(cables, e)
    <2>1. Strand(cables', e) = Strand(cables, e)
      BY <1>1, <1>9 DEF Strand
    <2> QED
      BY <2>1, SameStrand
  <1>10. LinesOf(cables') = [LinesOf(cables) EXCEPT ![j] = Append(LineOf(cables, j), transform)]
    BY <1>8, <1>9 DEF LinesOf
  <1>11. Len(LineOf(cables, j)) = n
    BY <1>3, LineIs
  <1> QED
    BY <1>1, <1>10, <1>11

(* What is left of a sequence without one place. *)
LEMMA RemoveAtIs ==
  ASSUME NEW S, NEW q \in Seq(S), NEW k \in 0 .. Len(q) - 1
  PROVE  /\ RemoveAt(q, k + 1) \in Seq(S) /\ Len(RemoveAt(q, k + 1)) = Len(q) - 1
         /\ \A i \in 1 .. Len(q) - 1 :
              RemoveAt(q, k + 1)[i] = q[IF i <= k THEN i ELSE i + 1]
  <1> DEFINE a == SubSeq(q, 1, k)
             b == SubSeq(q, k + 2, Len(q))
  <1>1. Len(q) \in Nat /\ k \in Nat /\ k <= Len(q) - 1
    OBVIOUS
  <1>2. a \in Seq(S) /\ Len(a) = k /\ \A i \in 1 .. k : a[i] = q[i]
    BY <1>1
  <1>3. b \in Seq(S) /\ Len(b) = Len(q) - (k + 1) /\ \A i \in 1 .. Len(b) : b[i] = q[i + k + 1]
    BY <1>1
  <1>4. RemoveAt(q, k + 1) = a \o b
    <2>1. (k + 1) - 1 = k /\ (k + 1) + 1 = k + 2
      BY <1>1
    <2> QED
      BY <2>1 DEF RemoveAt
  <1> HIDE DEF a, b
  <1>5. /\ a \o b \in Seq(S) /\ Len(a \o b) = Len(q) - 1
        /\ \A i \in 1 .. Len(q) - 1 : (a \o b)[i] = IF i <= k THEN a[i] ELSE b[i - k]
    <2>1. /\ a \o b \in Seq(S) /\ Len(a \o b) = Len(a) + Len(b)
          /\ \A i \in 1 .. Len(a) + Len(b) :
               (a \o b)[i] = IF i <= Len(a) THEN a[i] ELSE b[i - Len(a)]
      BY <1>2, <1>3, ConcatProperties
    <2>2. Len(a) + Len(b) = Len(q) - 1
      BY <1>1, <1>2, <1>3
    <2> QED
      BY <1>2, <2>1, <2>2
  <1>6. ASSUME NEW i \in 1 .. Len(q) - 1
        PROVE  (a \o b)[i] = q[IF i <= k THEN i ELSE i + 1]
    <2>1. CASE i <= k
      <3>1. (a \o b)[i] = a[i]
        BY <1>5, <2>1
      <3> QED
        BY <1>1, <1>2, <2>1, <3>1
    <2>2. CASE k < i
      <3>1. i - k \in 1 .. Len(b) /\ (i - k) + k + 1 = i + 1
        BY <1>1, <1>3, <2>2
      <3>2. (a \o b)[i] = b[i - k]
        BY <1>1, <1>5, <2>2
      <3>3. b[i - k] = q[(i - k) + k + 1]
        BY <1>3, <3>1
      <3>4. ~ (i <= k)
        BY <1>1, <2>2
      <3> QED
        BY <3>1, <3>2, <3>3, <3>4
    <2>3. i <= k \/ k < i
      BY <1>1
    <2> QED
      BY <2>1, <2>2, <2>3
  <1> QED
    BY <1>4, <1>5, <1>6

(* A disconnection takes the cable of its occurrence out of its line.      *)
LEMMA DisconnectedLine ==
  ASSUME IndexInv, NEW s \in Ports, NEW t \in Ports, NEW k, DisconnectCable(s, t, k)
  PROVE  /\ k \in 0 .. Len(LineOf(cables, <<s, t>>)) - 1
         /\ LinesOf(cables') =
              [LinesOf(cables) EXCEPT ![<<s, t>>] = RemoveAt(LineOf(cables, <<s, t>>), k + 1)]
  <1> DEFINE j == <<s, t>>
             S == Strand(cables, j)
             T == Strand(cables', j)
             n == Cardinality(S)
  <1>1. S = Between(s, t)
    BY DEF Strand, Between
  <1>2. PICK x \in S : k = Cardinality({d \in S : OlderThan(d, x)}) /\ cables' = cables \ {x}
    BY <1>1 DEF DisconnectCable, Unplug
  <1>3. k = Place(S, Ages(S), x)
    <2>1. Earlier(S, Ages(S), x) = {d \in S : OlderThan(d, x)}
      <3> HIDE DEF S
      <3> QED
        BY DEF Earlier, Ages
    <2> QED
      BY <1>2, <2>1 DEF Place
  <1>4. cables \subseteq Cable /\ IsFiniteSet(cables) /\ EntitiesApart(cables)
    BY LegalCables
  <1>5. cables' \subseteq Cable /\ IsFiniteSet(cables') /\ EntitiesApart(cables')
    BY <1>2, <1>4, FS_RemoveElement DEF EntitiesApart
  <1>6. T = S \ {x}
    BY <1>2 DEF Strand
  <1>7. IsFiniteSet(S) /\ StrictOn(Ages(S), S)
    BY <1>4, LineIs
  <1>8. /\ n \in Nat /\ Cardinality(T) = n - 1 /\ k \in Nat /\ k < n
        /\ \A i \in 1 .. n - 1 :
             InOrder(T, Ages(T))[i] = InOrder(S, Ages(S))[IF i <= k THEN i ELSE i + 1]
    <2>1. StrictOn(Ages(T), T)
      BY <1>5, LineIs
    <2>2. \A c, d \in S \ {x} : <<c, d>> \in Ages(T) <=> <<c, d>> \in Ages(S)
      <3> HIDE DEF S, T
      <3> QED
        BY <1>6 DEF Ages
    <2> HIDE DEF S, T
    <2>3. StrictOn(Ages(T), S \ {x})
      BY <1>6, <2>1
    <2>4. k \in Nat /\ k < n
      BY <1>3, <1>7, PlaceBounds
    <2>5. /\ n \in Nat /\ Cardinality(S \ {x}) = n - 1
          /\ \A i \in 1 .. n - 1 :
               InOrder(S \ {x}, Ages(T))[i] =
                 InOrder(S, Ages(S))[IF i <= Place(S, Ages(S), x) THEN i ELSE i + 1]
      BY <1>7, <2>2, <2>3, OneLeaves
    <2> QED
      BY <1>3, <1>6, <2>4, <2>5
  <1>9. LineOf(cables', j) = RemoveAt(LineOf(cables, j), k + 1)
    <2> DEFINE old == LineOf(cables, j)
               line == RemoveAt(old, k + 1)
    <2>1. /\ old \in Seq(Transforms) /\ Len(old) = n
          /\ \A i \in 1 .. n : old[i] = InOrder(S, Ages(S))[i].transform
      BY <1>4, LineIs
    <2> HIDE DEF old, S, T, n, j
    <2>2. k \in 0 .. Len(old) - 1
      BY <1>8, <2>1
    <2>3. line \in Seq(Transforms) /\ Len(line) = n - 1
          /\ \A i \in 1 .. n - 1 : line[i] = old[IF i <= k THEN i ELSE i + 1]
      BY <2>1, <2>2, RemoveAtIs
    <2> HIDE DEF line
    <2>4. \A i \in 1 .. n - 1 : (IF i <= k THEN i ELSE i + 1) \in 1 .. n
      BY <1>8
    <2>5. line \in Seq(Transforms) /\ Len(line) = Cardinality(T)
          /\ \A i \in 1 .. Len(line) : line[i] = InOrder(T, Ages(T))[i].transform
      BY <1>8, <2>1, <2>3, <2>4
    <2>6. line = LineOf(cables', j)
      BY <1>5, <2>5, LinesAlike DEF T
    <2> QED
      BY <2>6 DEF line, old
  <1>10. ASSUME NEW e \in Ports \X Ports, e # j
         PROVE  LineOf(cables', e) = LineOf(cables, e)
    <2>1. Strand(cables', e) = Strand(cables, e)
      BY <1>2, <1>10 DEF Strand
    <2> QED
      BY <2>1, SameStrand
  <1>11. LinesOf(cables') = [LinesOf(cables) EXCEPT ![j] = RemoveAt(LineOf(cables, j), k + 1)]
    BY <1>9, <1>10 DEF LinesOf
  <1>12. Len(LineOf(cables, j)) = n
    BY <1>4, LineIs
  <1> QED
    BY <1>8, <1>11, <1>12

(* A module takes the lines at its ports along, and no others. *)
LEMMA RemovedLines ==
  ASSUME IndexInv, NEW m, RemoveModule(m)
  PROVE  LinesOf(cables') =
           [e \in Ports \X Ports |-> IF m \in {Owner[e[1]], Owner[e[2]]} THEN <<>>
                                     ELSE LinesOf(cables)[e]]
  <1>1. cables' = cables \ Incident(m)
    BY DEF RemoveModule, Unplug
  <1>2. cables' \subseteq Cable /\ IsFiniteSet(cables') /\ EntitiesApart(cables')
    <2>1. cables' \subseteq cables
      BY <1>1
    <2> QED
      BY <2>1, LegalCables, FS_Subset DEF EntitiesApart
  <1>3. ASSUME NEW e \in Ports \X Ports
        PROVE  LineOf(cables', e) = IF m \in {Owner[e[1]], Owner[e[2]]} THEN <<>>
                                    ELSE LineOf(cables, e)
    <2>1. CASE m \in {Owner[e[1]], Owner[e[2]]}
      <3>1. Strand(cables', e) = {}
        BY <1>1, <2>1 DEF Strand, Incident
      <3>2. LineOf(cables', e) = <<>>
        BY <1>2, <3>1, LineIs
      <3> QED
        BY <2>1, <3>2
    <2>2. CASE m \notin {Owner[e[1]], Owner[e[2]]}
      <3>1. Strand(cables', e) = Strand(cables, e)
        BY <1>1, <2>2 DEF Strand, Incident
      <3>2. LineOf(cables', e) = LineOf(cables, e)
        BY <3>1, SameStrand
      <3> QED
        BY <2>2, <3>2
    <2> QED
      BY <2>1, <2>2
  <1> QED
    BY <1>3 DEF LinesOf

(* The jacks of the Patchbay are those of the graph. *)
LEMMA SameJacks ==
  /\ \A S, R : Bay!InOrder(S, R) = InOrder(S, R)
  /\ \A s, x : Bay!Carries(s, x) <=> Carries(s, x)
  /\ \A s, x : Bay!Contribution(s, x) = Contribution(s, x)
  /\ \A policy, values : Bay!Merged(policy, values) = Merged(policy, values)
  /\ \A policy, kind : Bay!IsValidFor(policy, kind) <=> IsValidFor(policy, kind)
  <1>1. \A S, R : Bay!InOrder(S, R) = InOrder(S, R)
    <2>1. \A S : Bay!Cardinality(S) = Cardinality(S)
      BY Zenon DEF Bay!Cardinality, Cardinality
    <2> SUFFICES ASSUME NEW S, NEW R PROVE Bay!InOrder(S, R) = InOrder(S, R)
      OBVIOUS
    <2>2. \A x : Bay!Earlier(S, R, x) = Earlier(S, R, x)
      BY DEF Bay!Earlier, Earlier
    <2>3. ASSUME NEW i
          PROVE  (CHOOSE x \in S : Bay!Cardinality(Bay!Earlier(S, R, x)) = i - 1)
                   = CHOOSE x \in S : Cardinality(Earlier(S, R, x)) = i - 1
      BY <2>1, <2>2
    <2> QED
      BY <2>1, <2>3 DEF Bay!InOrder, InOrder
  <1>2. Bay!ValueKinds = ValueKinds /\ Bay!Conversions = Conversions
    BY DEF Bay!ValueKinds, ValueKinds, Bay!Conversions, Conversions, Bay!SameKind, SameKind
  <1>3. \A x, k, l : Bay!Delivers(x, k, l) <=> Delivers(x, k, l)
    BY <1>2, Zenon DEF Bay!Delivers, Delivers
  <1>4. \A s, x : Bay!Carries(s, x) <=> Carries(s, x)
    BY <1>2, <1>3, Zenon DEF Bay!Carries, Carries
  <1>5. \A s, x : Bay!Contribution(s, x) = Contribution(s, x)
    BY <1>2, Zenon DEF Bay!Contribution, Contribution, Bay!Delivers, Delivers
  <1>6. \A policy, values : Bay!Merged(policy, values) = Merged(policy, values)
    BY DEF Bay!Merged, Merged
  <1>7. \A policy, kind : Bay!IsValidFor(policy, kind) <=> IsValidFor(policy, kind)
    BY DEF Bay!IsValidFor, IsValidFor
  <1> QED
    BY <1>1, <1>4, <1>5, <1>6, <1>7

(* What the rebuilt order lists. *)
Sorted == InOrder(cables, Propagation)
(* The rebuilt order lists every cable, none before its time.              *)
LEMMA SortedIs ==
  ASSUME IndexInv
  PROVE  /\ Cardinality(cables) \in Nat /\ DOMAIN Sorted = 1 .. Cardinality(cables)
         /\ \A i \in 1 .. Cardinality(cables) : Sorted[i] \in cables
         /\ \A c \in cables : \E i \in 1 .. Cardinality(cables) : Sorted[i] = c
         /\ \A i, j \in 1 .. Cardinality(cables) : i < j => PropagatesBefore(Sorted[i], Sorted[j])
         /\ RebuiltOrder = [i \in 1 .. Cardinality(cables) |-> Sorted[i].id]
  <1> DEFINE N == Cardinality(cables)
  <1>0. IsFiniteSet(cables) /\ StrictOn(Propagation, cables)
    BY PropagationStrictOn DEF IndexInv
  <1>1. /\ N \in Nat /\ DOMAIN Sorted = 1 .. N
        /\ \A i \in 1 .. N : Sorted[i] \in cables /\ Place(cables, Propagation, Sorted[i]) = i - 1
        /\ \A c \in cables : /\ Place(cables, Propagation, c) + 1 \in 1 .. N
                             /\ Sorted[Place(cables, Propagation, c) + 1] = c
    BY <1>0, InOrderLists DEF Sorted
  <1>2. ASSUME NEW i \in 1 .. N, NEW j \in 1 .. N, i < j
        PROVE  PropagatesBefore(Sorted[i], Sorted[j])
    <2> DEFINE c == Sorted[i]
               d == Sorted[j]
    <2>1. /\ c \in cables /\ d \in cables
          /\ Place(cables, Propagation, c) = i - 1 /\ Place(cables, Propagation, d) = j - 1
      BY <1>1
    <2> HIDE DEF c, d
    <2>2. ~ (Place(cables, Propagation, d) < Place(cables, Propagation, c)) /\ c # d
      BY <1>1, <1>2, <2>1
    <2>3. <<d, c>> \notin Propagation
      BY <1>0, <2>1, <2>2, PlaceRises
    <2>4. <<c, d>> \in Propagation
      BY <1>0, <2>1, <2>2, <2>3 DEF StrictOn
    <2>5. PropagatesBefore(c, d)
      BY <2>4 DEF Propagation
    <2> QED
      BY <2>5 DEF c, d
  <1>3. RebuiltOrder = [i \in 1 .. N |-> Sorted[i].id]
    BY <1>1 DEF RebuiltOrder, Sorted
  <1> QED
    BY <1>1, <1>2, <1>3

(* The place of a cable in its line. *)
LineAt(c) == <<c.source, c.target>>
InLine(c) == Place(Strand(cables, LineAt(c)), Ages(Strand(cables, LineAt(c))), c) + 1

(* A cable is found in its line at its place, behind the older ones.       *)
LEMMA InLineIs ==
  ASSUME IndexInv, NEW c \in cables
  PROVE  /\ InLine(c) \in Nat /\ InLine(c) \in DOMAIN LineOf(cables, LineAt(c))
         /\ LineOf(cables, LineAt(c))[InLine(c)] = c.transform
         /\ LineAt(c) \in Ports \X Ports
         /\ \A d \in cables : LineAt(d) = LineAt(c) /\ OlderThan(c, d) => InLine(c) < InLine(d)
  <1> DEFINE S == Strand(cables, LineAt(c))
  <1>1. cables \subseteq Cable /\ IsFiniteSet(cables) /\ EntitiesApart(cables)
    BY LegalCables
  <1>2. \A d \in cables : LineAt(d) = LineAt(c) => d \in S
    BY DEF LineAt, Strand
  <1>3. /\ IsFiniteSet(S) /\ StrictOn(Ages(S), S) /\ Cardinality(S) \in Nat
        /\ DOMAIN LineOf(cables, LineAt(c)) = 1 .. Cardinality(S)
        /\ \A i \in 1 .. Cardinality(S) :
             LineOf(cables, LineAt(c))[i] = InOrder(S, Ages(S))[i].transform
    BY <1>1, LineIs
  <1>4. c \in S /\ InLine(c) = Place(S, Ages(S), c) + 1
    BY <1>2 DEF InLine
  <1>5. \A d \in cables : LineAt(d) = LineAt(c) => InLine(d) = Place(S, Ages(S), d) + 1
    BY DEF InLine
  <1> HIDE DEF S
  <1>6. /\ Place(S, Ages(S), c) + 1 \in 1 .. Cardinality(S)
        /\ InOrder(S, Ages(S))[Place(S, Ages(S), c) + 1] = c
    BY <1>3, <1>4, InOrderLists
  <1>7. ASSUME NEW d \in cables, LineAt(d) = LineAt(c), OlderThan(c, d)
        PROVE  InLine(c) < InLine(d)
    <2>1. d \in S /\ <<c, d>> \in Ages(S)
      BY <1>2, <1>4, <1>7 DEF Ages
    <2>2. Place(S, Ages(S), c) < Place(S, Ages(S), d)
      BY <1>3, <1>4, <2>1, PlaceRises
    <2>3. Place(S, Ages(S), c) \in Nat /\ Place(S, Ages(S), d) \in Nat
      BY <1>3, <1>4, <2>1, PlaceBounds
    <2> QED
      BY <1>4, <1>5, <1>7, <2>2, <2>3
  <1>8. LineAt(c) \in Ports \X Ports
    BY <1>1 DEF LineAt, Cable
  <1>9. InLine(c) \in 1 .. Cardinality(S) /\ LineOf(cables, LineAt(c))[InLine(c)] = c.transform
    BY <1>3, <1>4, <1>6
  <1> QED
    BY <1>3, <1>7, <1>8, <1>9

(* Each place of a line is that of a cable.                                *)
LEMMA InLineTaken ==
  ASSUME IndexInv, NEW s \in Ports, NEW t \in Ports, NEW k \in DOMAIN LineOf(cables, <<s, t>>)
  PROVE  \E c \in cables : LineAt(c) = <<s, t>> /\ InLine(c) = k
  <1> DEFINE S == Strand(cables, <<s, t>>)
             c == InOrder(S, Ages(S))[k]
  <1>1. cables \subseteq Cable /\ IsFiniteSet(cables) /\ EntitiesApart(cables)
    BY LegalCables
  <1>2. /\ IsFiniteSet(S) /\ StrictOn(Ages(S), S) /\ Cardinality(S) \in Nat
        /\ k \in 1 .. Cardinality(S)
    BY <1>1, LineIs
  <1>3. c \in S /\ Place(S, Ages(S), c) = k - 1
    <2> HIDE DEF S
    <2> QED
      BY <1>2, InOrderLists
  <1> HIDE DEF c
  <1>4. c \in cables /\ LineAt(c) = <<s, t>>
    BY <1>3 DEF Strand, LineAt
  <1>5. InLine(c) = (k - 1) + 1
    BY <1>3, <1>4 DEF InLine
  <1> HIDE DEF S
  <1> QED
    BY <1>2, <1>4, <1>5
-----------------------------------------------------------------------------
(* What reaches an input, when the order in use is the rebuilt one: the    *)
(* cables of the rebuilt order that deliver, one after another.            *)
Alive(p) == {i \in 1 .. Cardinality(cables) : Sorted[i] \in Reaching(p)}
AliveAt(p) == InOrder(Alive(p), Rising(Alive(p)))

(* The places that deliver are finitely many, and are taken in order.      *)
LEMMA AliveIs ==
  ASSUME IndexInv, NEW p
  PROVE  /\ Alive(p) \subseteq 1 .. Cardinality(cables) /\ Alive(p) \subseteq Nat
         /\ IsFiniteSet(Alive(p)) /\ StrictOn(Rising(Alive(p)), Alive(p))
         /\ DOMAIN AliveAt(p) = 1 .. Cardinality(Alive(p))
         /\ \A n \in 1 .. Cardinality(Alive(p)) : AliveAt(p)[n] \in Alive(p)
  <1>1. Cardinality(cables) \in Nat
    BY SortedIs
  <1>2. Alive(p) \subseteq 1 .. Cardinality(cables)
    BY DEF Alive
  <1>3. Alive(p) \subseteq Nat
    BY <1>1, <1>2
  <1>4. IsFiniteSet(Alive(p))
    <2>1. IsFiniteSet(1 .. Cardinality(cables))
      BY <1>1, FS_Interval
    <2> QED
      BY <1>2, <2>1, FS_Subset
  <1>5. StrictOn(Rising(Alive(p)), Alive(p))
    BY <1>3, RisingIsStrict
  <1> QED
    BY <1>2, <1>3, <1>4, <1>5, InOrderLists DEF AliveAt

(* What reaches an input is what these cables give, in their order.        *)
LEMMA ContributionsAre ==
  ASSUME IndexInv, UsedOrder = RebuiltOrder, NEW p
  PROVE  Contributions(p) =
           [n \in 1 .. Cardinality(Alive(p)) |->
              Contribution(Sorted[AliveAt(p)[n]].source, Sorted[AliveAt(p)[n]].transform)]
  <1> DEFINE ids == RebuiltOrder
             N == Cardinality(cables)
             cable(i) == CHOOSE c \in cables : c.id = ids[i]
  <1>1. /\ DOMAIN ids = 1 .. N
        /\ \A i \in 1 .. N : ids[i] = Sorted[i].id /\ Sorted[i] \in cables
    BY SortedIs
  <1>2. \A i \in 1 .. N : \A c \in cables : c.id = ids[i] <=> c = Sorted[i]
    BY <1>1 DEF IndexInv, EntitiesApart
  <1>3. Reaching(p) \subseteq cables
    BY DEF Reaching
  <1>4. {i \in DOMAIN ids : \E c \in Reaching(p) : c.id = ids[i]} = Alive(p)
    <2>1. \A i \in 1 .. N : (\E c \in Reaching(p) : c.id = ids[i]) <=> Sorted[i] \in Reaching(p)
      BY <1>1, <1>2, <1>3
    <2> HIDE DEF ids
    <2> QED
      BY <1>1, <2>1 DEF Alive
  <1>5. \A i \in 1 .. N : cable(i) = Sorted[i]
    <2> SUFFICES ASSUME NEW i \in 1 .. N PROVE cable(i) = Sorted[i]
      OBVIOUS
    <2>1. \E c \in cables : c.id = ids[i]
      BY <1>1
    <2>2. cable(i) \in cables /\ cable(i).id = ids[i]
      BY <2>1, Zenon
    <2> HIDE DEF cable
    <2> QED
      BY <1>2, <2>2
  <1>6. Contributions(p) =
          [n \in DOMAIN AliveAt(p) |->
             Contribution(cable(AliveAt(p)[n]).source, cable(AliveAt(p)[n]).transform)]
    <2>1. Contributions(p) = ReachingBy(ids, p)
      BY DEF Contributions
    <2> DEFINE A == {i \in DOMAIN ids : \E c \in Reaching(p) : c.id = ids[i]}
               Listed(I) == [n \in DOMAIN InOrder(I, Rising(I)) |->
                               Contribution(cable(InOrder(I, Rising(I))[n]).source,
                                            cable(InOrder(I, Rising(I))[n]).transform)]
    <2>2. ReachingBy(ids, p) = Listed(A)
      BY DEF ReachingBy
    <2>3. A = Alive(p)
      BY <1>4
    <2>4. Listed(Alive(p)) =
            [n \in DOMAIN AliveAt(p) |->
               Contribution(cable(AliveAt(p)[n]).source, cable(AliveAt(p)[n]).transform)]
      BY DEF AliveAt
    <2> HIDE DEF A, Listed
    <2> QED
      BY <2>1, <2>2, <2>3, <2>4
  <1> HIDE DEF cable, ids
  <1>7. \A n \in 1 .. Cardinality(Alive(p)) : cable(AliveAt(p)[n]) = Sorted[AliveAt(p)[n]]
    BY <1>5, AliveIs
  <1>8. DOMAIN AliveAt(p) = 1 .. Cardinality(Alive(p))
    BY AliveIs
  <1> QED
    BY <1>6, <1>7, <1>8

(* The feeds of the Patchbay in their order.                               *)
LEMMA FeedsAre ==
  ASSUME IndexInv, NEW p \in Ports
  PROVE  /\ \A f \in Bay!Feeds(p) : f = <<f[1], f[2]>> /\ f[1] \in Ports /\ f[1] \in Nat /\ f[2] \in Nat
         /\ \A s \in Ports : \A k : <<s, k>> \in Bay!Feeds(p) <=>
              /\ k \in DOMAIN LineOf(cables, <<s, p>>)
              /\ Carries(s, LineOf(cables, <<s, p>>)[k])
         /\ StrictOn(Bay!ByName(Bay!Feeds(p)), Bay!Feeds(p))
  <1>1. \A s \in Ports : LinesOf(cables)[<<s, p>>] = LineOf(cables, <<s, p>>)
    BY DEF LinesOf
  <1>2. \A f : f \in Bay!Feeds(p) <=>
          \E s \in Ports : \E k \in DOMAIN LineOf(cables, <<s, p>>) :
            f = <<s, k>> /\ Carries(s, LineOf(cables, <<s, p>>)[k])
    <2> DEFINE Carried(s) == {k \in DOMAIN LinesOf(cables)[<<s, p>>] :
                                Bay!Carries(s, LinesOf(cables)[<<s, p>>][k])}
    <2>1. \A f : f \in Bay!Feeds(p) <=> \E s \in Ports : f \in {s} \X Carried(s)
      BY DEF Bay!Feeds
    <2>2. \A s \in Ports : \A k : k \in Carried(s) <=>
            /\ k \in DOMAIN LineOf(cables, <<s, p>>)
            /\ Carries(s, LineOf(cables, <<s, p>>)[k])
      BY <1>1, SameJacks
    <2> HIDE DEF Carried
    <2>3. \A s, f : f \in {s} \X Carried(s) <=> \E k \in Carried(s) : f = <<s, k>>
      OBVIOUS
    <2>4. ASSUME NEW f, f \in Bay!Feeds(p)
          PROVE  \E s \in Ports : \E k \in DOMAIN LineOf(cables, <<s, p>>) :
                   f = <<s, k>> /\ Carries(s, LineOf(cables, <<s, p>>)[k])
      <3>1. PICK s \in Ports : f \in {s} \X Carried(s)
        BY <2>1, <2>4
      <3>2. PICK k \in Carried(s) : f = <<s, k>>
        BY <2>3, <3>1
      <3> QED
        BY <2>2, <3>2, Zenon
    <2>5. ASSUME NEW f, NEW s \in Ports, NEW k \in DOMAIN LineOf(cables, <<s, p>>),
                 f = <<s, k>>, Carries(s, LineOf(cables, <<s, p>>)[k])
          PROVE  f \in Bay!Feeds(p)
      <3>1. k \in Carried(s)
        BY <2>2, <2>5, Zenon
      <3>2. f \in {s} \X Carried(s)
        BY <2>3, <2>5, <3>1
      <3> QED
        BY <2>1, <3>2
    <2> QED
      BY <2>4, <2>5, Zenon
  <1>3. \A s \in Ports : DOMAIN LineOf(cables, <<s, p>>) \subseteq Nat
    <2> SUFFICES ASSUME NEW s \in Ports PROVE DOMAIN LineOf(cables, <<s, p>>) \subseteq Nat
      OBVIOUS
    <2>1. LineOf(cables, <<s, p>>) \in Seq(Transforms)
      BY LegalCables, LineIs
    <2> QED
      BY <2>1
  <1>4. Ports \subseteq Nat
    BY JacksAssumption DEF JacksAssumption
  <1>5. \A f \in Bay!Feeds(p) : f = <<f[1], f[2]>> /\ f[1] \in Ports /\ f[1] \in Nat /\ f[2] \in Nat
    <2> SUFFICES ASSUME NEW f \in Bay!Feeds(p)
                 PROVE  f = <<f[1], f[2]>> /\ f[1] \in Ports /\ f[1] \in Nat /\ f[2] \in Nat
      OBVIOUS
    <2>1. PICK s \in Ports : \E k \in DOMAIN LineOf(cables, <<s, p>>) : f = <<s, k>>
      BY <1>2, Zenon
    <2>2. PICK k \in DOMAIN LineOf(cables, <<s, p>>) : f = <<s, k>>
      BY <2>1
    <2>3. s \in Nat /\ k \in Nat
      BY <1>3, <1>4
    <2> QED
      BY <2>2, <2>3
  <1>6. \A s \in Ports : \A k : <<s, k>> \in Bay!Feeds(p) <=>
          /\ k \in DOMAIN LineOf(cables, <<s, p>>)
          /\ Carries(s, LineOf(cables, <<s, p>>)[k])
    <2> SUFFICES ASSUME NEW s \in Ports, NEW k
                 PROVE  <<s, k>> \in Bay!Feeds(p) <=>
                          /\ k \in DOMAIN LineOf(cables, <<s, p>>)
                          /\ Carries(s, LineOf(cables, <<s, p>>)[k])
      OBVIOUS
    <2>1. ASSUME <<s, k>> \in Bay!Feeds(p)
          PROVE  /\ k \in DOMAIN LineOf(cables, <<s, p>>)
                 /\ Carries(s, LineOf(cables, <<s, p>>)[k])
      <3>1. PICK r \in Ports : \E l \in DOMAIN LineOf(cables, <<r, p>>) :
              <<s, k>> = <<r, l>> /\ Carries(r, LineOf(cables, <<r, p>>)[l])
        BY <1>2, <2>1, Zenon
      <3>2. PICK l \in DOMAIN LineOf(cables, <<r, p>>) :
              <<s, k>> = <<r, l>> /\ Carries(r, LineOf(cables, <<r, p>>)[l])
        BY <3>1
      <3>3. s = r /\ k = l
        BY <3>2
      <3> QED
        BY <3>2, <3>3, Zenon
    <2>2. ASSUME k \in DOMAIN LineOf(cables, <<s, p>>), Carries(s, LineOf(cables, <<s, p>>)[k])
          PROVE  <<s, k>> \in Bay!Feeds(p)
      BY <1>2, <2>2, Zenon
    <2> QED
      BY <2>1, <2>2
  <1>7. StrictOn(Bay!ByName(Bay!Feeds(p)), Bay!Feeds(p))
    <2> DEFINE F == Bay!Feeds(p)
               Q == Bay!ByName(F)
               Before(f, g) == f[1] < g[1] \/ (f[1] = g[1] /\ f[2] < g[2])
    <2>1. \A f \in F : f = <<f[1], f[2]>> /\ f[1] \in Nat /\ f[2] \in Nat
      BY <1>5
    <2>2. \A f, g \in F : <<f, g>> \in Q <=> Before(f, g)
      <3> HIDE DEF F
      <3> QED
        BY DEF Bay!ByName
    <2> HIDE DEF F, Q
    <2>3. \A f \in F : ~Before(f, f)
      BY <2>1
    <2>4. \A f, g, h \in F : Before(f, g) /\ Before(g, h) => Before(f, h)
      BY <2>1
    <2>5. \A f, g \in F : f = g \/ Before(f, g) \/ Before(g, f)
      <3> SUFFICES ASSUME NEW f \in F, NEW g \in F, ~Before(f, g), ~Before(g, f) PROVE f = g
        OBVIOUS
      <3>1. f[1] = g[1] /\ f[2] = g[2]
        BY <2>1
      <3>2. f = <<f[1], f[2]>> /\ g = <<g[1], g[2]>>
        BY <2>1
      <3> QED
        BY <3>1, <3>2, Zenon
    <2> HIDE DEF Before
    <2>6. StrictOn(Q, F)
      BY <2>2, <2>3, <2>4, <2>5 DEF StrictOn
    <2> QED
      BY <2>6 DEF Q, F
  <1> QED
    BY <1>5, <1>6, <1>7

(* The cable at place i of the rebuilt order, as a feed of the Patchbay.   *)
AsFeed(p) == [i \in Alive(p) |-> <<Sorted[i].source, InLine(Sorted[i])>>]

(* A place that delivers is that of a cable in a line to the input.        *)
LEMMA AliveCable ==
  ASSUME IndexInv, NEW p \in Ports, NEW i \in Alive(p)
  PROVE  /\ i \in 1 .. Cardinality(cables) /\ Sorted[i] \in cables
         /\ Sorted[i].target = p /\ Sorted[i].source \in Ports
         /\ LineAt(Sorted[i]) = <<Sorted[i].source, p>>
         /\ Carries(Sorted[i].source, Sorted[i].transform)
         /\ InLine(Sorted[i]) \in DOMAIN LineOf(cables, <<Sorted[i].source, p>>)
         /\ LineOf(cables, <<Sorted[i].source, p>>)[InLine(Sorted[i])] = Sorted[i].transform
         /\ InLine(Sorted[i]) \in Nat
  <1>1. i \in 1 .. Cardinality(cables) /\ Sorted[i] \in Reaching(p)
    BY DEF Alive
  <1>2. Sorted[i] \in cables /\ Sorted[i].target = p
        /\ Carries(Sorted[i].source, Sorted[i].transform)
    BY <1>1 DEF Reaching
  <1>3. LineAt(Sorted[i]) = <<Sorted[i].source, p>> /\ Sorted[i].source \in Ports
    BY <1>2, LegalCables DEF LineAt, Cable
  <1>4. /\ InLine(Sorted[i]) \in Nat
        /\ InLine(Sorted[i]) \in DOMAIN LineOf(cables, LineAt(Sorted[i]))
        /\ LineOf(cables, LineAt(Sorted[i]))[InLine(Sorted[i])] = Sorted[i].transform
    BY <1>2, InLineIs, Zenon
  <1> QED
    BY <1>1, <1>2, <1>3, <1>4, Zenon

(* The feeds of the Patchbay are exactly the cables that deliver.          *)
LEMMA AliveFeeds ==
  ASSUME IndexInv, NEW p \in Ports
  PROVE  /\ AsFeed(p) \in [Alive(p) -> Bay!Feeds(p)]
         /\ \A z \in Bay!Feeds(p) : \E i \in Alive(p) : AsFeed(p)[i] = z
  <1>1. ASSUME NEW i \in Alive(p) PROVE AsFeed(p)[i] \in Bay!Feeds(p)
    <2>1. AsFeed(p)[i] = <<Sorted[i].source, InLine(Sorted[i])>>
      BY DEF AsFeed
    <2> DEFINE s == Sorted[i].source
               k == InLine(Sorted[i])
    <2>2. /\ s \in Ports /\ k \in DOMAIN LineOf(cables, <<s, p>>)
          /\ Carries(s, LineOf(cables, <<s, p>>)[k])
      BY AliveCable, Zenon
    <2>3. <<s, k>> \in Bay!Feeds(p)
      <3> HIDE DEF s, k
      <3> QED
        BY <2>2, FeedsAre
    <2> QED
      BY <2>1, <2>3
  <1>2. AsFeed(p) \in [Alive(p) -> Bay!Feeds(p)]
    BY <1>1 DEF AsFeed
  <1>3. ASSUME NEW z \in Bay!Feeds(p) PROVE \E i \in Alive(p) : AsFeed(p)[i] = z
    <2> DEFINE s == z[1]
               k == z[2]
    <2>1. z = <<s, k>> /\ s \in Ports
      BY FeedsAre
    <2> HIDE DEF s, k
    <2>2. /\ k \in DOMAIN LineOf(cables, <<s, p>>)
          /\ Carries(s, LineOf(cables, <<s, p>>)[k])
      BY <2>1, FeedsAre
    <2>3. PICK c \in cables : LineAt(c) = <<s, p>> /\ InLine(c) = k
      BY <2>1, <2>2, InLineTaken
    <2>4. LineOf(cables, <<s, p>>)[k] = c.transform
      BY <2>3, InLineIs
    <2>5. c.source = s /\ c.target = p
      BY <2>3 DEF LineAt
    <2>6. c \in Reaching(p)
      BY <2>2, <2>4, <2>5 DEF Reaching
    <2>7. PICK i \in 1 .. Cardinality(cables) : Sorted[i] = c
      BY SortedIs
    <2>8. i \in Alive(p)
      BY <2>6, <2>7 DEF Alive
    <2>9. AsFeed(p)[i] = <<s, k>>
      BY <2>3, <2>5, <2>7, <2>8 DEF AsFeed
    <2> QED
      BY <2>1, <2>8, <2>9
  <1> QED
    BY <1>2, <1>3

(* They come in the order of the sources and, in a line, of age.           *)
LEMMA FeedsRise ==
  ASSUME IndexInv, NEW p \in Ports, NEW i \in Alive(p), NEW j \in Alive(p), i < j
  PROVE  <<AsFeed(p)[i], AsFeed(p)[j]>> \in Bay!ByName(Bay!Feeds(p))
  <1> DEFINE c == Sorted[i]
             d == Sorted[j]
  <1>1. /\ c \in cables /\ c.target = p /\ c.source \in Ports /\ LineAt(c) = <<c.source, p>>
        /\ i \in 1 .. Cardinality(cables)
    BY AliveCable
  <1>2. /\ d \in cables /\ d.target = p /\ d.source \in Ports /\ LineAt(d) = <<d.source, p>>
        /\ j \in 1 .. Cardinality(cables)
    BY AliveCable
  <1>3. PropagatesBefore(c, d)
    BY <1>1, <1>2, SortedIs
  <1>4. AsFeed(p)[i] = <<c.source, InLine(c)>> /\ AsFeed(p)[j] = <<d.source, InLine(d)>>
    BY DEF AsFeed
  <1>5. AsFeed(p)[i] \in Bay!Feeds(p) /\ AsFeed(p)[j] \in Bay!Feeds(p)
    BY AliveFeeds
  <1> HIDE DEF c, d
  <1>6. p \in Nat
    BY JacksAssumption DEF JacksAssumption
  <1>7. c.source < d.source \/ (c.source = d.source /\ OlderThan(c, d))
    BY <1>1, <1>2, <1>3, <1>6 DEF PropagatesBefore
  <1>8. c.source < d.source \/ (c.source = d.source /\ InLine(c) < InLine(d))
    <2>1. c.source = d.source /\ OlderThan(c, d) => InLine(c) < InLine(d)
      BY <1>1, <1>2, InLineIs
    <2> QED
      BY <1>7, <2>1
  <1> DEFINE f == AsFeed(p)[i]
             g == AsFeed(p)[j]
             F == Bay!Feeds(p)
  <1>9. f[1] < g[1] \/ (f[1] = g[1] /\ f[2] < g[2])
    BY <1>4, <1>8
  <1>10. f \in F /\ g \in F
    BY <1>5
  <1> HIDE DEF f, g, F
  <1>11. <<f, g>> \in Bay!ByName(F)
    BY <1>9, <1>10 DEF Bay!ByName
  <1> QED
    BY <1>11 DEF f, g, F

(* A sample that uses the rebuilt order gives an input what the Patchbay   *)
(* says arrives there, in the same order.                                  *)
LEMMA ArrivingIs ==
  ASSUME IndexInv, UsedOrder = RebuiltOrder, NEW p \in Ports
  PROVE  Bay!Arriving(p) = Contributions(p)
  <1> DEFINE S == Alive(p)
             R == Rising(S)
             F == Bay!Feeds(p)
             Q == Bay!ByName(F)
             f == AsFeed(p)
             feeds == InOrder(F, Q)
             N == Cardinality(S)
  <1>1. IsFiniteSet(S) /\ StrictOn(R, S) /\ InOrder(S, R) = AliveAt(p)
        /\ \A n \in 1 .. N : AliveAt(p)[n] \in S
    BY AliveIs DEF AliveAt
  <1>2. StrictOn(Q, F) /\ f \in [S -> F] /\ \A z \in F : \E i \in S : f[i] = z
    BY FeedsAre, AliveFeeds
  <1>3. \A i, j \in S : <<i, j>> \in R => <<f[i], f[j]>> \in Q
    BY FeedsRise DEF Rising
  <1>4. Bay!InOrder(F, Q) = feeds
    BY SameJacks
  <1>5. Bay!Arriving(p) =
          [n \in DOMAIN feeds |->
             Bay!Contribution(feeds[n][1], LinesOf(cables)[<<feeds[n][1], p>>][feeds[n][2]])]
    BY <1>4 DEF Bay!Arriving
  <1>6. N = Cardinality(S) /\ feeds = InOrder(F, Q)
    OBVIOUS
  <1>7. ASSUME NEW i \in S
        PROVE  Bay!Contribution(f[i][1], LinesOf(cables)[<<f[i][1], p>>][f[i][2]])
                 = Contribution(Sorted[i].source, Sorted[i].transform)
    <2>1. f[i] = <<Sorted[i].source, InLine(Sorted[i])>>
      BY DEF AsFeed
    <2>2. f[i][1] = Sorted[i].source /\ f[i][2] = InLine(Sorted[i])
      BY <2>1
    <2>3. LinesOf(cables)[<<Sorted[i].source, p>>] = LineOf(cables, <<Sorted[i].source, p>>)
      BY AliveCable DEF LinesOf
    <2>4. LineOf(cables, <<Sorted[i].source, p>>)[InLine(Sorted[i])] = Sorted[i].transform
      BY AliveCable
    <2>5. LinesOf(cables)[<<f[i][1], p>>][f[i][2]] = Sorted[i].transform
      <3> HIDE DEF f, S
      <3> QED
        BY <2>2, <2>3, <2>4, Zenon
    <2> HIDE DEF f, S
    <2> QED
      BY <2>2, <2>5, SameJacks, Zenon
  <1> HIDE DEF S, R, F, Q, f, feeds, N
  <1>8. /\ IsFiniteSet(F) /\ Cardinality(F) = N
        /\ \A n \in 1 .. N : f[AliveAt(p)[n]] = feeds[n]
    BY <1>1, <1>2, <1>3, <1>6, SameOrder
  <1>9. DOMAIN feeds = 1 .. N
    BY <1>2, <1>6, <1>8, InOrderLists
  <1>10. \A n \in 1 .. N :
           Bay!Contribution(feeds[n][1], LinesOf(cables)[<<feeds[n][1], p>>][feeds[n][2]])
             = Contribution(Sorted[AliveAt(p)[n]].source, Sorted[AliveAt(p)[n]].transform)
    BY <1>1, <1>7, <1>8
  <1>11. Contributions(p) =
           [n \in 1 .. N |-> Contribution(Sorted[AliveAt(p)[n]].source,
                                          Sorted[AliveAt(p)[n]].transform)]
    BY ContributionsAre DEF N, S
  <1> QED
    BY <1>5, <1>9, <1>10, <1>11

(* A set whose members each lead to another would have a smallest one, and *)
(* what comes first in it could be left out.                               *)
LEMMA NoLoop ==
  ASSUME NEW ms \in SUBSET Modules, NEW edges, Acyclic(ms, edges),
         NEW wired, wired \subseteq edges, \A e \in wired : e[1] \in ms
  PROVE  ~Bay!Looped(wired)
  <1> DEFINE Leads(S) == \A m \in S : \E n \in S \ {m} : <<m, n>> \in wired
             Rings == {S \in (SUBSET Modules) \ {{}} : Leads(S)}
  <1> SUFFICES ASSUME Rings # {} PROVE FALSE
    BY DEF Bay!Looped
  <1>1. \A S \in Rings : IsFiniteSet(S) /\ Cardinality(S) \in Nat
    <2>1. \A S \in SUBSET Modules : IsFiniteSet(S)
      BY JacksAssumption, FS_Subset DEF JacksAssumption
    <2> QED
      BY <2>1, FS_CardinalityType
  <1>2. PICK S \in Rings : \A T \in Rings : Cardinality(S) <= Cardinality(T)
    <2> DEFINE sizes == {Cardinality(S) : S \in Rings}
    <2>1. sizes \subseteq Nat /\ sizes # {}
      BY <1>1
    <2> HIDE DEF sizes
    <2>2. PICK x \in sizes : \A y \in sizes : x <= y
      BY <2>1, LeastNatural
    <2>3. \A T \in Rings : Cardinality(T) \in sizes
      BY DEF sizes
    <2>4. PICK S \in Rings : x = Cardinality(S)
      BY <2>2 DEF sizes
    <2> HIDE DEF Rings
    <2> QED
      BY <2>2, <2>3, <2>4
  <1>3. \A m \in S : \E n \in S \ {m} : <<m, n>> \in wired
    BY <1>2
  <1>4. S \in (SUBSET ms) \ {{}}
    <2>1. S # {}
      BY <1>2
    <2>2. \A m \in S : m \in ms
      <3> SUFFICES ASSUME NEW m \in S PROVE m \in ms
        OBVIOUS
      <3>1. PICK n \in S \ {m} : <<m, n>> \in wired
        BY <1>3
      <3>2. <<m, n>>[1] \in ms
        BY <3>1
      <3> QED
        BY <3>2
    <2> QED
      BY <2>1, <2>2
  <1>5. PICK m \in S : \A n \in S \ {m} : <<n, m>> \notin edges
    BY <1>4 DEF Acyclic, SourceIn
  <1> DEFINE T == S \ {m}
  <1>6. T # {} /\ T \subseteq S /\ T # S /\ T \in SUBSET Modules
    BY <1>2, <1>3
  <1>7. \A x \in T : \E y \in T \ {x} : <<x, y>> \in wired
    BY <1>3, <1>5
  <1>8. T \in Rings
    BY <1>6, <1>7
  <1>9. Cardinality(T) < Cardinality(S)
    BY <1>1, <1>2, <1>6, SmallerPart
  <1> HIDE DEF T, Rings
  <1> QED
    BY <1>1, <1>2, <1>8, <1>9

(* The lines of a legal graph make no loop.                                *)
LEMMA LegalHasNoLoop ==
  ASSUME NEW ms \in SUBSET Modules, NEW cs, cs \subseteq Cable, IsFiniteSet(cs),
         EntitiesApart(cs), Acyclic(ms, Edges(cs)),
         \A c \in cs : {Owner[c.source], Owner[c.target]} \subseteq ms
  PROVE  ~Bay!Looped(Bay!Wired(LinesOf(cs)))
  <1> DEFINE W == Bay!Wired(LinesOf(cs))
  <1>1. ASSUME NEW w \in W
        PROVE  \E c \in cs : w = <<Owner[c.source], Owner[c.target]>>
    <2>1. PICK e \in Ports \X Ports : LinesOf(cs)[e] # <<>> /\ w = <<Owner[e[1]], Owner[e[2]]>>
      BY <1>1 DEF Bay!Wired
    <2>2. LineOf(cs, e) # <<>>
      BY <2>1 DEF LinesOf
    <2>3. Strand(cs, e) # {}
      BY <2>2, LineIs
    <2> QED
      BY <2>1, <2>3 DEF Strand
  <1> HIDE DEF W
  <1>2. W \subseteq Edges(cs)
    BY <1>1 DEF Edges
  <1>3. \A w \in W : w[1] \in ms
    BY <1>1
  <1>4. ~Bay!Looped(W)
    BY <1>2, <1>3, NoLoop
  <1> QED
    BY <1>4 DEF W

(* An input without cables has empty lines, from wherever they come. *)
LEMMA NoFanIn ==
  ASSUME IndexInv, NEW t \in Ports, FanIn(cables, t) = {}, NEW p \in Ports
  PROVE  LinesOf(cables)[<<p, t>>] = <<>>
  <1>1. Strand(cables, <<p, t>>) = {}
    BY DEF Strand, FanIn
  <1>2. LineOf(cables, <<p, t>>) = <<>>
    BY <1>1, LegalCables, LineIs
  <1> QED
    BY <1>2 DEF LinesOf

(* The lines after a step are those of the cables after it.                *)
LEMMA LinesPrimed == LinesOf(cables)' = LinesOf(cables')
  BY DEF LinesOf, LineOf, Strand, Ages, InOrder, Earlier, OlderThan

(* A step that leaves the cables alone leaves the lines alone.             *)
LEMMA LinesKept == UNCHANGED cables => LinesOf(cables)' = LinesOf(cables)
  BY DEF LinesOf, LineOf, Strand, Ages, InOrder, Earlier, OlderThan
-----------------------------------------------------------------------------
(* Each step of the graph is one of the Patchbay.                          *)
LEMMA LoadMapped ==
  ASSUME NEW patch \in Patches, Load(patch)
  PROVE  \E loaded \in LoadedLines : Bay!Load(loaded)
  <1> DEFINE cs == Spawned(patch.cables)
             loaded == [modules |-> patch.modules, lines |-> LinesOf(cs)]
  <1>1. /\ Valid(patch.modules, cs) /\ modules' = patch.modules /\ cables' = cs
        /\ current' = [p \in Ports |-> Silence] /\ reply' = reply
    BY DEF Load, Apply
  <1>2. loaded \in LoadedLines
    BY <1>1 DEF LoadedLines
  <1>3. LinesOf(cables)' = LinesOf(cs)
    BY <1>1, LinesPrimed
  <1>4. Bay!Load(loaded)
    BY <1>1, <1>3 DEF Bay!Load
  <1> QED
    BY <1>2, <1>4

(* restart() is the Restart of the Patchbay.                               *)
LEMMA RestartMapped ==
  ASSUME IndexInv, Restart
  PROVE  Bay!Restart
  <1>1. /\ modules' = modules /\ cables' = Snapshot /\ reply' = reply
        /\ current' = [p \in Ports |-> Silence]
    BY DEF Restart, Apply
  <1>2. LinesOf(cables)' = LinesOf(cables)
    BY <1>1, LinesPrimed, SnapshotKeepsLines
  <1> QED
    BY <1>1, <1>2 DEF Bay!Restart

(* connect_cable is its Connect.                                           *)
LEMMA ConnectMapped ==
  ASSUME GraphInv, NEW s \in Ports, NEW t \in Ports, NEW transform,
         ConnectCable(s, t, transform)
  PROVE  /\ <<s, t>> \in Bay!JackPairs /\ transform \in Bay!Transforms
         /\ Bay!Connect(s, t, transform)
  <1>1. /\ Present(s) /\ Present(t) /\ Direction[s] = "Output" /\ Direction[t] = "Input"
        /\ Accepts(transform, Kind[s], Kind[t]) /\ IsValidFor(Policy[t], Kind[t])
        /\ Policy[t] = "Reject" => FanIn(cables, t) = {}
        /\ modules' = modules /\ current' = current
    BY DEF ConnectCable
  <1>2. /\ LinesOf(cables)' = [LinesOf(cables) EXCEPT
                                 ![<<s, t>>] = Append(LineOf(cables, <<s, t>>), transform)]
        /\ reply' = Len(LineOf(cables, <<s, t>>))
    BY ConnectedLine, LinesPrimed DEF GraphInv
  <1>3. LinesOf(cables)[<<s, t>>] = LineOf(cables, <<s, t>>)
    BY DEF LinesOf
  <1>4. <<s, t>> \in Bay!JackPairs /\ transform \in Bay!Transforms
    BY <1>1 DEF Bay!JackPairs, Bay!Transforms, Bay!SameKind, Accepts, SameKind
  <1>5. Bay!Delivers(transform, Kind[s], Kind[t])
    BY <1>1, JacksAssumption
       DEF Bay!Delivers, Bay!Conversions, Bay!SameKind, Bay!ValueKinds, Accepts, SameKind,
           JacksAssumption, ValueKinds
  <1>6. Bay!IsValidFor(Policy[t], Kind[t]) /\ Bay!Present(s) /\ Bay!Present(t)
    BY <1>1, SameJacks DEF Bay!Present, Present
  <1>7. Policy[t] = "Reject" => \A p \in Ports : LinesOf(cables)[<<p, t>>] = <<>>
    BY <1>1, NoFanIn DEF GraphInv
  <1>8. ~Bay!Looped(Bay!Wired(LinesOf(cables)'))
    <2>1. GraphInv'
      BY ConnectKeepsLegal
    <2>2. /\ modules' \in SUBSET Modules /\ cables' \subseteq Cable /\ IsFiniteSet(cables')
          /\ EntitiesApart(cables') /\ Acyclic(modules', Edges(cables'))
          /\ \A c \in cables' : {Owner[c.source], Owner[c.target]} \subseteq modules'
      BY <2>1 DEF GraphInv, IndexInv, Legal, EntitiesApart, Acyclic, SourceIn, Edges
    <2> QED
      BY <2>2, LegalHasNoLoop, LinesPrimed
  <1>9. /\ reply' = Len(LinesOf(cables)[<<s, t>>])
        /\ LinesOf(cables)' = [LinesOf(cables) EXCEPT
                                 ![<<s, t>>] = Append(LinesOf(cables)[<<s, t>>], transform)]
    BY <1>2, <1>3
  <1>10. Bay!Connect(s, t, transform)
    BY <1>1, <1>5, <1>6, <1>7, <1>8, <1>9 DEF Bay!Connect
  <1> QED
    BY <1>4, <1>10

(* disconnect_cable is its Disconnect.                                     *)
LEMMA DisconnectMapped ==
  ASSUME IndexInv, NEW s \in Ports, NEW t \in Ports, NEW k, DisconnectCable(s, t, k)
  PROVE  /\ k \in 0 .. Len(LinesOf(cables)[<<s, t>>])
         /\ Bay!Disconnect(s, t, k)
  <1>1. LinesOf(cables)[<<s, t>>] = LineOf(cables, <<s, t>>)
    BY DEF LinesOf
  <1>2. k \in 0 .. Len(LineOf(cables, <<s, t>>)) - 1
    BY DisconnectedLine
  <1>3. Len(LineOf(cables, <<s, t>>)) \in Nat
    BY LegalCables, LineIs
  <1>4. LinesOf(cables)' =
          [LinesOf(cables) EXCEPT ![<<s, t>>] = RemoveAt(LinesOf(cables)[<<s, t>>], k + 1)]
    BY <1>1, DisconnectedLine, LinesPrimed
  <1>5. \A line, i : Bay!RemoveAt(line, i) = RemoveAt(line, i)
    BY DEF Bay!RemoveAt, RemoveAt
  <1>6. modules' = modules /\ current' = current /\ reply' = reply
    BY DEF DisconnectCable
  <1>7. k \in 0 .. Len(LinesOf(cables)[<<s, t>>]) /\ k < Len(LinesOf(cables)[<<s, t>>])
    BY <1>1, <1>2, <1>3
  <1> QED
    BY <1>4, <1>5, <1>6, <1>7 DEF Bay!Disconnect

(* remove_module is its Retire.                                            *)
LEMMA RetireMapped ==
  ASSUME IndexInv, NEW m \in Modules, RemoveModule(m)
  PROVE  Bay!Retire(m)
  <1>1. LinesOf(cables)' =
          [e \in Ports \X Ports |-> IF m \in {Owner[e[1]], Owner[e[2]]} THEN <<>>
                                    ELSE LinesOf(cables)[e]]
    BY RemovedLines, LinesPrimed
  <1> QED
    BY <1>1 DEF Bay!Retire, RemoveModule

(* A sample is its Sample, because the order is never stale.               *)
LEMMA SampleMapped ==
  ASSUME IndexInv, OrderNeverStale, Sample
  PROVE  Bay!Sample
  <1>1. UsedOrder = RebuiltOrder
    BY DEF OrderNeverStale, UsedOrder
  <1>2. \A p \in Ports : Bay!Arriving(p) = Contributions(p)
    BY <1>1, ArrivingIs
  <1>3. \A p \in Ports : Bay!Merged(Policy[p], Bay!Arriving(p)) = Merged(Policy[p], Contributions(p))
    BY <1>2, SameJacks
  <1>4. UNCHANGED <<modules, LinesOf(cables), reply>>
    BY LinesKept DEF Sample, graphVars
  <1>5. current' = [p \in Ports |->
                      IF Direction[p] = "Input" /\ Bay!Arriving(p) # <<>>
                      THEN Bay!Merged(Policy[p], Bay!Arriving(p)) ELSE current[p]]
    BY <1>2, <1>3 DEF Sample
  <1> QED
    BY <1>4, <1>5 DEF Bay!Sample

(* The entity graph implements the patch bay, for every set of modules,    *)
(* ports and patch files: ordinals, index, dirty flag and cached order     *)
(* stay invisible, every sample delivers exactly what is plugged in, in    *)
(* its order, and every returned occurrence is the place of the new cable. *)
THEOREM GraphImplementsPatchbay == Spec => ImplementsPatchbay
  <1>1. Init => Bay!Init
    <2> SUFFICES ASSUME Init PROVE Bay!Init
      OBVIOUS
    <2>1. IndexInv /\ cables = {}
      BY LegalAtFirst DEF GraphInv, Init
    <2>2. \A e \in Ports \X Ports : Strand(cables, e) = {}
      BY <2>1 DEF Strand
    <2>3. \A e \in Ports \X Ports : LineOf(cables, e) = <<>>
      BY <2>1, <2>2, LegalCables, LineIs
    <2>4. LinesOf(cables) = [e \in Ports \X Ports |-> <<>>]
      BY <2>3 DEF LinesOf
    <2> QED
      BY <2>4 DEF Init, Bay!Init
  <1>2. GraphInv /\ OrderNeverStale /\ [Next]_vars => [Bay!Next]_Bay!bayVars
    <2> SUFFICES ASSUME GraphInv, OrderNeverStale, [Next]_vars
                 PROVE  Bay!Next \/ UNCHANGED Bay!bayVars
      OBVIOUS
    <2>0. IndexInv
      BY DEF GraphInv
    <2>1. CASE \E patch \in Patches : Load(patch)
      <3>1. \E loaded \in LoadedLines : Bay!Load(loaded)
        BY <2>1, LoadMapped
      <3> QED
        BY <3>1 DEF Bay!Next
    <2>2. CASE Restart
      BY <2>0, <2>2, RestartMapped DEF Bay!Next
    <2>3. ASSUME NEW s \in Ports, NEW t \in Ports, NEW transform \in Offered,
                 ConnectCable(s, t, transform)
          PROVE  Bay!Next
      <3> DEFINE e == <<s, t>>
      <3>1. e \in Bay!JackPairs /\ transform \in Bay!Transforms /\ Bay!Connect(e[1], e[2], transform)
        BY <2>3, ConnectMapped
      <3> HIDE DEF e
      <3> QED
        BY <3>1 DEF Bay!Next
    <2>4. ASSUME NEW s \in Ports, NEW t \in Ports, NEW k, DisconnectCable(s, t, k)
          PROVE  Bay!Next
      <3>1. k \in 0 .. Len(LinesOf(cables)[<<s, t>>]) /\ Bay!Disconnect(s, t, k)
        BY <2>0, <2>4, DisconnectMapped
      <3> QED
        BY <3>1 DEF Bay!Next
    <2>5. CASE \E m \in Modules : RemoveModule(m)
      <3>1. \E m \in Modules : Bay!Retire(m)
        BY <2>0, <2>5, RetireMapped
      <3> QED
        BY <3>1 DEF Bay!Next
    <2>6. CASE Sample
      BY <2>0, <2>6, SampleMapped DEF Bay!Next
    <2>7. CASE UNCHANGED vars
      BY <2>7, LinesKept DEF vars, graphVars, Bay!bayVars
    <2> QED
      BY <2>1, <2>2, <2>3, <2>4, <2>5, <2>6, <2>7 DEF Next
  <1> QED
    BY <1>1, <1>2, GraphIsAlwaysLegal, OrderIsNeverStale, PTL DEF Spec, Bay!Spec, ImplementsPatchbay
-----------------------------------------------------------------------------
(* A cable that gives a value at all gives its input the kind it is of:    *)
(* what a live connection is checked for, and a patch file need not do.    *)
Converting(c) ==
  Carries(c.source, c.transform) => Delivers(c.transform, Kind[c.source], Kind[c.target])

(* A patch file has such a cable, between these ports.                     *)
Alike(c, d) == c.source = d.source /\ c.target = d.target /\ c.transform = d.transform
FromFile(c) ==
  \E patch \in Patches : \E i \in DOMAIN patch.cables : Alike(patch.cables[i], c)
ConvertingOrFromFile(cs) == \A c \in cs : Converting(c) \/ FromFile(c)

(* Values of two kinds meet in an input only where a patch file put a      *)
(* cable that gives it values of another kind than its own: no connection, *)
(* removal or restart mixes what the file had not mixed.                   *)
OnlyFilesMix ==
  \A p \in Ports : \A i, j \in DOMAIN Contributions(p) :
    Contributions(p)[i].kind # Contributions(p)[j].kind
      => \E c \in Reaching(p) : ~Converting(c) /\ FromFile(c)

(* A cable gives values of one kind; what validate_transform accepts       *)
(* gives the kind of the input.                                            *)
LEMMA DeliveredKind ==
  ASSUME NEW transform, NEW s \in Ports, NEW t \in Ports, Delivers(transform, Kind[s], Kind[t])
  PROVE  Contribution(s, transform).kind = Kind[t]
  <1>1. Kind[s] \in ValueKinds /\ Kind[t] \in ValueKinds
    BY JacksAssumption DEF JacksAssumption
  <1>3. \A k \in ValueKinds : Delivers(transform, Kind[s], k) => k = Kind[t]
    BY <1>1 DEF Delivers, Conversions, SameKind, ValueKinds
  <1>4. (CHOOSE k \in ValueKinds : Delivers(transform, Kind[s], k)) = Kind[t]
    BY <1>1, <1>3
  <1> QED
    BY <1>4 DEF Contribution

(* A live connection is checked for just that.                             *)
LEMMA AcceptedDelivers ==
  ASSUME NEW transform, NEW s \in Ports, NEW t \in Ports, Accepts(transform, Kind[s], Kind[t])
  PROVE  Delivers(transform, Kind[s], Kind[t])
  BY JacksAssumption
     DEF JacksAssumption, Accepts, Delivers, Conversions, SameKind, ValueKinds

(* Under a propagation order that is not stale, an input is given values   *)
(* of its own kind only, unless a cable that reaches it is not checked.    *)
LEMMA CheckedCablesAgree ==
  ASSUME IndexInv, OrderNeverStale, ConvertingOrFromFile(cables)
  PROVE  OnlyFilesMix
  <1>1. UsedOrder = RebuiltOrder
    BY DEF OrderNeverStale, UsedOrder
  <1>2. ASSUME NEW p \in Ports, NEW n \in DOMAIN Contributions(p),
               Contributions(p)[n].kind # Kind[p]
        PROVE  \E c \in Reaching(p) : ~Converting(c) /\ FromFile(c)
    <2> DEFINE i == AliveAt(p)[n]
    <2>1. n \in 1 .. Cardinality(Alive(p))
          /\ Contributions(p)[n] = Contribution(Sorted[i].source, Sorted[i].transform)
      BY <1>1, <1>2, ContributionsAre
    <2>2. i \in Alive(p)
      BY <2>1, AliveIs
    <2> HIDE DEF i
    <2>3. Sorted[i] \in cables /\ Sorted[i].target = p /\ Sorted[i].source \in Ports
          /\ Carries(Sorted[i].source, Sorted[i].transform)
      BY <2>2, AliveCable
    <2>4. ~Converting(Sorted[i])
      <3>1. CASE Converting(Sorted[i])
        <4>1. Delivers(Sorted[i].transform, Kind[Sorted[i].source], Kind[p])
          BY <2>3, <3>1 DEF Converting
        <4>2. Contribution(Sorted[i].source, Sorted[i].transform).kind = Kind[p]
          BY <2>3, <4>1, DeliveredKind
        <4> QED
          BY <1>2, <2>1, <4>2
      <3> QED
        BY <3>1
    <2>5. Sorted[i] \in Reaching(p) /\ FromFile(Sorted[i])
      BY <2>3, <2>4 DEF Reaching, ConvertingOrFromFile
    <2> QED
      BY <2>4, <2>5
  <1> QED
    BY <1>2 DEF OnlyFilesMix

(* Whatever is loaded, plugged in, pulled out and restarted, only cables a *)
(* patch file brought mix kinds.                                           *)
THEOREM OnlyFilesMixKinds == Spec => []OnlyFilesMix
  <1>1. Init => ConvertingOrFromFile(cables)
    BY DEF Init, ConvertingOrFromFile
  <1>2. GraphInv /\ ConvertingOrFromFile(cables) /\ [Next]_vars => ConvertingOrFromFile(cables)'
    <2> SUFFICES ASSUME GraphInv, ConvertingOrFromFile(cables), [Next]_vars
                 PROVE  ConvertingOrFromFile(cables')
      BY DEF ConvertingOrFromFile, Converting, FromFile, Alike, Delivers, Carries
    <2>1. ASSUME NEW patch \in Patches, Load(patch) PROVE ConvertingOrFromFile(cables')
      <3>1. cables' = Spawned(patch.cables)
        BY <2>1 DEF Load, Apply
      <3>2. \A i \in DOMAIN patch.cables : FromFile(Entity(patch.cables[i], i))
        BY DEF FromFile, Alike, Entity
      <3> QED
        BY <3>1, <3>2 DEF Spawned, ConvertingOrFromFile
    <2>2. CASE Restart
      <3>1. cables' = {Entity(c, Rank(c)) : c \in cables}
        BY <2>2 DEF Restart, Apply, Snapshot
      <3>2. \A c \in cables : Alike(Entity(c, Rank(c)), c)
        BY DEF Entity, Alike
      <3>3. ASSUME NEW c, NEW d, Alike(d, c), Converting(c) \/ FromFile(c)
            PROVE  Converting(d) \/ FromFile(d)
        BY <3>3 DEF Alike, Converting, FromFile
      <3> QED
        BY <3>1, <3>2, <3>3 DEF ConvertingOrFromFile
    <2>3. ASSUME NEW s \in Ports, NEW t \in Ports, NEW transform \in Offered,
                 ConnectCable(s, t, transform)
          PROVE  ConvertingOrFromFile(cables')
      <3>1. Delivers(transform, Kind[s], Kind[t])
        BY <2>3, AcceptedDelivers DEF ConnectCable
      <3> QED
        BY <2>3, <3>1 DEF ConnectCable, ConvertingOrFromFile, Converting
    <2>4. ASSUME NEW s \in Ports, NEW t \in Ports, NEW k, DisconnectCable(s, t, k)
          PROVE  ConvertingOrFromFile(cables')
      BY <2>4 DEF DisconnectCable, Unplug, ConvertingOrFromFile
    <2>5. ASSUME NEW m \in Modules, RemoveModule(m) PROVE ConvertingOrFromFile(cables')
      BY <2>5 DEF RemoveModule, Unplug, ConvertingOrFromFile
    <2>6. CASE Sample
      BY <2>6 DEF Sample, graphVars, ConvertingOrFromFile
    <2>7. CASE UNCHANGED vars
      BY <2>7 DEF vars, graphVars, ConvertingOrFromFile
    <2> QED
      BY <2>1, <2>2, <2>3, <2>4, <2>5, <2>6, <2>7 DEF Next
  <1>3. GraphInv /\ OrderNeverStale /\ ConvertingOrFromFile(cables) => OnlyFilesMix
    BY CheckedCablesAgree DEF GraphInv
  <1> QED
    BY <1>1, <1>2, <1>3, GraphIsAlwaysLegal, OrderIsNeverStale, PTL DEF Spec
-----------------------------------------------------------------------------
(* compute_tick_order and the queue of check_patch_cycles.                 *)
(* What a list of names in order has, and what is at its head.             *)
LEMMA AscendingIs ==
  ASSUME NEW S, IsFiniteSet(S), S \subseteq Nat
  PROVE  /\ Ascending(S) \in Seq(S) /\ ToSet(Ascending(S)) = S
         /\ Len(Ascending(S)) = Cardinality(S)
         /\ \A i, j \in DOMAIN Ascending(S) : Ascending(S)[i] = Ascending(S)[j] => i = j
         /\ S # {} => Ascending(S) # <<>> /\ \A x \in S : Head(Ascending(S)) <= x
  <1> DEFINE R == Rising(S)
             a == InOrder(S, R)
             N == Cardinality(S)
  <1>1. \A x \in S : {y \in S : y < x} = Earlier(S, R, x)
    BY DEF Earlier, Rising
  <1>2. Ascending(S) = a
    <2> DEFINE p(i) == CHOOSE x \in S : Cardinality({y \in S : y < x}) = i - 1
               q(i) == CHOOSE x \in S : Cardinality(Earlier(S, R, x)) = i - 1
    <2> HIDE DEF R
    <2>1. ASSUME NEW i PROVE p(i) = q(i)
      BY <1>1
    <2>2. Ascending(S) = [i \in 1 .. N |-> p(i)]
      BY DEF Ascending
    <2>3. a = [i \in 1 .. N |-> q(i)]
      BY DEF InOrder, Place
    <2> HIDE DEF p, q, a
    <2> QED
      BY <2>1, <2>2, <2>3
  <1>3. StrictOn(R, S)
    BY RisingIsStrict
  <1> HIDE DEF R, a, N
  <1>4. /\ N \in Nat /\ DOMAIN a = 1 .. N /\ a \in Seq(S) /\ Len(a) = N
        /\ \A i \in 1 .. N : a[i] \in S /\ Place(S, R, a[i]) = i - 1
        /\ \A x \in S : Place(S, R, x) + 1 \in 1 .. N /\ a[Place(S, R, x) + 1] = x
    BY <1>3, InOrderLists DEF a, N
  <1>5. ToSet(a) = S
    BY <1>4 DEF ToSet
  <1>6. \A i, j \in 1 .. N : a[i] = a[j] => i = j
    BY <1>4
  <1>7. ASSUME S # {} PROVE a # <<>> /\ \A x \in S : Head(a) <= x
    <2>1. 1 \in 1 .. N /\ a # <<>>
      <3>1. PICK x \in S : TRUE
        BY <1>7
      <3>2. Place(S, R, x) \in Nat /\ Place(S, R, x) + 1 \in 1 .. N
        BY <1>3, <1>4, PlaceBounds
      <3> QED
        BY <1>4, <3>2
    <2>2. Head(a) = a[1] /\ a[1] \in S /\ Place(S, R, a[1]) = 0
      BY <1>4, <2>1
    <2>3. ASSUME NEW x \in S PROVE a[1] <= x
      <3> SUFFICES ASSUME ~ (a[1] <= x) PROVE FALSE
        OBVIOUS
      <3>0. PICK least \in S : least = a[1]
        BY <2>2
      <3>1. a[1] \in Nat /\ x \in Nat /\ x < a[1]
        <4>1. least \in Nat /\ x \in Nat
          OBVIOUS
        <4> QED
          BY <3>0, <4>1
      <3>2. <<x, a[1]>> \in R
        BY <2>2, <3>1 DEF R, Rising
      <3>3. Place(S, R, x) < Place(S, R, a[1]) /\ Place(S, R, x) \in Nat
        BY <1>3, <2>2, <3>2, PlaceRises, PlaceBounds
      <3> QED
        BY <2>2, <3>3
    <2> QED
      BY <2>1, <2>2, <2>3
  <1> QED
    BY <1>2, <1>4, <1>5, <1>6, <1>7 DEF N

(* The rounds of Kahn's algorithm.                                         *)
TakeOne(heap, wires, s) == IF s.queue = <<>> THEN s ELSE Taken(heap, wires, s)
AreTurns(f, heap, ms, wires, count) ==
  f = [i \in 0 .. count |->
         IF i = 0 THEN Seeded(ms, wires) ELSE TakeOne(heap, wires, f[i - 1])]

(* The rounds are well defined.                                            *)
LEMMA TurnsExist ==
  ASSUME NEW heap, NEW ms, NEW wires, NEW count \in Nat
  PROVE  \E f : AreTurns(f, heap, ms, wires, count)
  <1> DEFINE Turns(f, k) == f = [i \in 0 .. k |->
               IF i = 0 THEN Seeded(ms, wires) ELSE TakeOne(heap, wires, f[i - 1])]
             failing == {k \in Nat : ~ \E f : Turns(f, k)}
  <1> USE DEF AreTurns
  <1> SUFFICES ASSUME failing # {} PROVE FALSE
    OBVIOUS
  <1>1. PICK k \in failing : \A j \in failing : k <= j
    <2>1. failing \subseteq Nat
      OBVIOUS
    <2> HIDE DEF failing
    <2> QED
      BY <2>1, LeastNatural
  <1>2. CASE k = 0
    <2>1. Turns([i \in 0 .. 0 |-> Seeded(ms, wires)], 0)
      OBVIOUS
    <2> QED
      BY <1>1, <1>2, <2>1
  <1>3. CASE k # 0
    <2>0. k \in Nat
      BY <1>1
    <2>1. k - 1 \in Nat /\ k - 1 \notin failing
      <3> HIDE DEF failing
      <3> QED
        BY <1>1, <1>3, <2>0
    <2>2. PICK g : Turns(g, k - 1)
      BY <2>1
    <2> DEFINE f == [i \in 0 .. k |-> IF i = k THEN TakeOne(heap, wires, g[k - 1]) ELSE g[i]]
    <2>3. \A i \in 0 .. k - 1 :
            g[i] = IF i = 0 THEN Seeded(ms, wires) ELSE TakeOne(heap, wires, g[i - 1])
      <3>1. \A i \in 0 .. k - 1 :
              [j \in 0 .. k - 1 |->
                 IF j = 0 THEN Seeded(ms, wires) ELSE TakeOne(heap, wires, g[j - 1])][i]
                = IF i = 0 THEN Seeded(ms, wires) ELSE TakeOne(heap, wires, g[i - 1])
        OBVIOUS
      <3> QED
        BY <2>2, <3>1, Zenon
    <2>4. \A i \in 0 .. k : f[i] = IF i = 0 THEN Seeded(ms, wires)
                                            ELSE TakeOne(heap, wires, f[i - 1])
      <3> SUFFICES ASSUME NEW i \in 0 .. k
                   PROVE  f[i] = IF i = 0 THEN Seeded(ms, wires)
                                          ELSE TakeOne(heap, wires, f[i - 1])
        OBVIOUS
      <3>1. CASE i = k
        <4>1. f[k] = TakeOne(heap, wires, g[k - 1]) /\ f[k - 1] = g[k - 1]
          BY <2>1, <1>3
        <4> QED
          BY <3>1, <1>3, <4>1
      <3>2. CASE i # k /\ i # 0
        <4>1. i \in 0 .. k - 1 /\ i - 1 \in 0 .. k - 1
          BY <2>1, <3>2
        <4>2. f[i] = g[i] /\ f[i - 1] = g[i - 1]
          BY <4>1, <2>1
        <4> QED
          BY <2>3, <3>2, <4>1, <4>2
      <3>3. CASE i # k /\ i = 0
        BY <2>1, <2>3, <3>3
      <3> QED
        BY <3>1, <3>2, <3>3
    <2>5. Turns(f, k)
      BY <2>4
    <2> QED
      BY <1>1, <2>5
  <1> QED
    BY <1>2, <1>3

(* The rounds are what their recursion says.                               *)
LEMMA Turns ==
  ASSUME NEW heap, NEW ms, NEW wires, IsFiniteSet(ms)
  PROVE  /\ Cardinality(ms) \in Nat
         /\ Resolving(heap, ms, wires)[0] = Seeded(ms, wires)
         /\ \A i \in 1 .. Cardinality(ms) :
              Resolving(heap, ms, wires)[i] = TakeOne(heap, wires, Resolving(heap, ms, wires)[i - 1])
  <1> DEFINE N == Cardinality(ms)
             R == Resolving(heap, ms, wires)
  <1>1. N \in Nat
    BY FS_CardinalityType
  <1>2. R = [i \in 0 .. N |-> IF i = 0 THEN Seeded(ms, wires) ELSE TakeOne(heap, wires, R[i - 1])]
    <2>1. \E f : AreTurns(f, heap, ms, wires, N)
      BY <1>1, TurnsExist
    <2>2. R = CHOOSE f : AreTurns(f, heap, ms, wires, N)
      BY Zenon DEF Resolving, AreTurns, TakeOne
    <2>3. AreTurns(R, heap, ms, wires, N)
      BY <2>1, <2>2, Zenon
    <2> QED
      BY <2>3, Zenon DEF AreTurns
  <1> HIDE DEF R
  <1>3. \A i \in 0 .. N : R[i] = IF i = 0 THEN Seeded(ms, wires) ELSE TakeOne(heap, wires, R[i - 1])
    <2>1. \A i \in 0 .. N :
            [j \in 0 .. N |-> IF j = 0 THEN Seeded(ms, wires)
                                       ELSE TakeOne(heap, wires, R[j - 1])][i]
              = IF i = 0 THEN Seeded(ms, wires) ELSE TakeOne(heap, wires, R[i - 1])
      OBVIOUS
    <2> QED
      BY <1>2, <2>1, Zenon
  <1>4. R[0] = Seeded(ms, wires)
        /\ \A i \in 1 .. N : R[i] = TakeOne(heap, wires, R[i - 1])
    BY <1>1, <1>3
  <1> QED
    BY <1>1, <1>4 DEF R

(* A list in which nothing comes twice.                                    *)
Single(q) == \A i, j \in DOMAIN q : q[i] = q[j] => i = j

(* A list of some is a list of more.                                       *)
LEMMA WiderList ==
  ASSUME NEW S, NEW T, S \subseteq T, NEW q \in Seq(S)
  PROVE  q \in Seq(T)
  <1>1. Len(q) \in Nat /\ q \in [1 .. Len(q) -> S]
    OBVIOUS
  <1>2. q \in [1 .. Len(q) -> T]
    BY <1>1
  <1> QED
    BY <1>1, <1>2

(* A list of that kind without its head.                                   *)
LEMMA HeadLeaves ==
  ASSUME NEW S, NEW q \in Seq(S), Single(q), q # <<>>
  PROVE  /\ Head(q) \in S /\ Head(q) \in ToSet(q)
         /\ Tail(q) \in Seq(S) /\ Single(Tail(q))
         /\ ToSet(Tail(q)) = ToSet(q) \ {Head(q)}
  <1>0. Len(q) \in Nat /\ Len(q) >= 1 /\ DOMAIN q = 1 .. Len(q) /\ q = [i \in 1 .. Len(q) |-> q[i]]
        /\ \A i \in 1 .. Len(q) : q[i] \in S
    OBVIOUS
  <1>1. Head(q) = q[1] /\ Head(q) \in S /\ Head(q) \in ToSet(q)
    BY <1>0 DEF ToSet
  <1>2. Tail(q) \in Seq(S) /\ DOMAIN Tail(q) = 1 .. Len(q) - 1
        /\ \A i \in 1 .. Len(q) - 1 : Tail(q)[i] = q[i + 1]
    OBVIOUS
  <1>3. Single(Tail(q))
    <2> SUFFICES ASSUME NEW i \in 1 .. Len(q) - 1, NEW j \in 1 .. Len(q) - 1,
                        Tail(q)[i] = Tail(q)[j]
                 PROVE  i = j
      BY <1>2 DEF Single
    <2>1. q[i + 1] = q[j + 1] /\ i + 1 \in DOMAIN q /\ j + 1 \in DOMAIN q
      BY <1>0, <1>2
    <2>2. i + 1 = j + 1
      BY <2>1 DEF Single
    <2> QED
      BY <1>0, <2>2
  <1>4. ToSet(Tail(q)) = ToSet(q) \ {Head(q)}
    <2>1. ASSUME NEW x \in ToSet(Tail(q)) PROVE x \in ToSet(q) \ {Head(q)}
      <3>1. PICK i \in 1 .. Len(q) - 1 : Tail(q)[i] = x
        BY <1>2, <2>1 DEF ToSet
      <3>2. x = q[i + 1] /\ i + 1 \in DOMAIN q /\ 1 \in DOMAIN q /\ i + 1 # 1
        BY <1>0, <1>2, <3>1
      <3>3. q[i + 1] # q[1]
        BY <3>2 DEF Single
      <3> QED
        BY <1>1, <3>2, <3>3 DEF ToSet
    <2>2. ASSUME NEW x \in ToSet(q) \ {Head(q)} PROVE x \in ToSet(Tail(q))
      <3>1. PICK i \in 1 .. Len(q) : q[i] = x
        BY <1>0, <2>2 DEF ToSet
      <3>2. i # 1
        BY <1>1, <2>2, <3>1
      <3>3. i - 1 \in 1 .. Len(q) - 1 /\ Tail(q)[i - 1] = q[(i - 1) + 1] /\ (i - 1) + 1 = i
        BY <1>0, <1>2, <3>2
      <3> QED
        BY <1>2, <3>1, <3>3 DEF ToSet
    <2> QED
      BY <2>1, <2>2
  <1> QED
    BY <1>1, <1>2, <1>3, <1>4

(* Lists that share nothing, one after the other.                          *)
LEMMA ListsJoin ==
  ASSUME NEW S, NEW q \in Seq(S), NEW r \in Seq(S), Single(q), Single(r),
         ToSet(q) \cap ToSet(r) = {}
  PROVE  q \o r \in Seq(S) /\ Single(q \o r) /\ ToSet(q \o r) = ToSet(q) \cup ToSet(r)
  <1>0. /\ Len(q) \in Nat /\ Len(r) \in Nat /\ q \o r \in Seq(S)
        /\ DOMAIN q = 1 .. Len(q) /\ DOMAIN r = 1 .. Len(r)
        /\ DOMAIN (q \o r) = 1 .. Len(q) + Len(r)
        /\ \A i \in 1 .. Len(q) : (q \o r)[i] = q[i]
        /\ \A i \in 1 .. Len(r) : (q \o r)[Len(q) + i] = r[i]
    OBVIOUS
  <1>1. \A i \in 1 .. Len(q) + Len(r) :
          \/ i \in 1 .. Len(q) /\ (q \o r)[i] = q[i] /\ (q \o r)[i] \in ToSet(q)
          \/ /\ i - Len(q) \in 1 .. Len(r) /\ (q \o r)[i] = r[i - Len(q)]
             /\ (q \o r)[i] \in ToSet(r)
    <2> TAKE i \in 1 .. Len(q) + Len(r)
    <2>1. CASE i \in 1 .. Len(q)
      BY <1>0, <2>1 DEF ToSet
    <2>2. CASE i \notin 1 .. Len(q)
      <3>1. i - Len(q) \in 1 .. Len(r) /\ Len(q) + (i - Len(q)) = i
        BY <1>0, <2>2
      <3>2. (q \o r)[i] = r[i - Len(q)]
        BY <1>0, <3>1
      <3> QED
        BY <1>0, <3>1, <3>2 DEF ToSet
    <2> QED
      BY <2>1, <2>2
  <1>2. Single(q \o r)
    <2> SUFFICES ASSUME NEW i \in 1 .. Len(q) + Len(r), NEW j \in 1 .. Len(q) + Len(r),
                        (q \o r)[i] = (q \o r)[j]
                 PROVE  i = j
      BY <1>0 DEF Single
    <2>1. CASE i \in 1 .. Len(q) /\ j \in 1 .. Len(q)
      BY <1>0, <2>1 DEF Single
    <2>2. CASE i - Len(q) \in 1 .. Len(r) /\ j - Len(q) \in 1 .. Len(r)
      <3>1. r[i - Len(q)] = r[j - Len(q)]
        <4>1. i \notin 1 .. Len(q) /\ j \notin 1 .. Len(q)
          BY <1>0, <2>2
        <4> QED
          BY <1>1, <4>1
      <3>2. i - Len(q) = j - Len(q)
        BY <1>0, <2>2, <3>1 DEF Single
      <3> QED
        BY <1>0, <3>2
    <2> QED
      BY <1>1, <2>1, <2>2
  <1>3. ToSet(q \o r) = ToSet(q) \cup ToSet(r)
    <2>1. ToSet(q \o r) \subseteq ToSet(q) \cup ToSet(r)
      BY <1>0, <1>1 DEF ToSet
    <2>2. ASSUME NEW x \in ToSet(q) PROVE x \in ToSet(q \o r)
      <3>1. PICK i \in 1 .. Len(q) : q[i] = x
        BY <1>0, <2>2 DEF ToSet
      <3>2. i \in DOMAIN (q \o r) /\ (q \o r)[i] = x
        BY <1>0, <3>1
      <3> QED
        BY <3>2 DEF ToSet
    <2>3. ASSUME NEW x \in ToSet(r) PROVE x \in ToSet(q \o r)
      <3>1. PICK i \in 1 .. Len(r) : r[i] = x
        BY <1>0, <2>3 DEF ToSet
      <3>2. Len(q) + i \in DOMAIN (q \o r) /\ (q \o r)[Len(q) + i] = x
        BY <1>0, <3>1
      <3> QED
        BY <3>2 DEF ToSet
    <2> QED
      BY <2>1, <2>2, <2>3
  <1> QED
    BY <1>0, <1>2, <1>3

(* One more at the end of a list.                                          *)
LEMMA OneFollows ==
  ASSUME NEW S, NEW q \in Seq(S), Single(q), NEW x \in S, x \notin ToSet(q)
  PROVE  /\ Append(q, x) \in Seq(S) /\ Single(Append(q, x))
         /\ ToSet(Append(q, x)) = ToSet(q) \cup {x}
         /\ Len(Append(q, x)) = Len(q) + 1 /\ Append(q, x)[Len(q) + 1] = x
         /\ DOMAIN Append(q, x) = 1 .. Len(q) + 1 /\ DOMAIN q = 1 .. Len(q) /\ Len(q) \in Nat
         /\ \A i \in DOMAIN q : Append(q, x)[i] = q[i]
  <1>0. /\ Len(q) \in Nat /\ DOMAIN q = 1 .. Len(q) /\ Append(q, x) \in Seq(S)
        /\ DOMAIN Append(q, x) = 1 .. Len(q) + 1 /\ Len(Append(q, x)) = Len(q) + 1
        /\ \A i \in 1 .. Len(q) : Append(q, x)[i] = q[i]
        /\ Append(q, x)[Len(q) + 1] = x
    OBVIOUS
  <1>1. \A i \in DOMAIN q : q[i] # x
    BY DEF ToSet
  <1>2. \A i \in 1 .. Len(q) + 1 : i \in 1 .. Len(q) \/ i = Len(q) + 1
    BY <1>0
  <1>3. Single(Append(q, x))
    BY <1>0, <1>1, <1>2 DEF Single
  <1>4. ToSet(Append(q, x)) = ToSet(q) \cup {x}
    <2>1. ToSet(Append(q, x)) \subseteq ToSet(q) \cup {x}
      BY <1>0, <1>2 DEF ToSet
    <2>2. ASSUME NEW y \in ToSet(q) PROVE y \in ToSet(Append(q, x))
      <3>1. PICK i \in 1 .. Len(q) : q[i] = y
        BY <1>0, <2>2 DEF ToSet
      <3>2. i \in 1 .. Len(q) + 1 /\ Append(q, x)[i] = y
        BY <1>0, <3>1
      <3> QED
        BY <1>0, <3>2 DEF ToSet
    <2>3. x \in ToSet(Append(q, x))
      <3>1. Len(q) + 1 \in 1 .. Len(q) + 1
        BY <1>0
      <3> QED
        BY <1>0, <3>1 DEF ToSet
    <2> QED
      BY <2>1, <2>2, <2>3
  <1> QED
    BY <1>0, <1>3, <1>4

(* The cables into n from modules not yet resolved, the modules before a   *)
(* place of a list, and those that could stand there.                      *)
Left(wires, done, n) == {i \in Into(wires, n) : wires[i][1] \notin done}
Before(list, i) == {list[j] : j \in 1 .. i - 1}
MayStand(ms, wires, list, i) ==
  {n \in ms \ Before(list, i) : \A k \in Into(wires, n) : wires[k][1] \in Before(list, i)}

(* What every round of Kahn's algorithm keeps.                             *)
KahnInv(heap, ms, wires, s) ==
  /\ s.degree \in [ms -> Nat] /\ s.resolved \in Seq(ms) /\ s.queue \in Seq(ms)
  /\ Single(s.resolved) /\ Single(s.queue)
  /\ \A n \in ms : s.degree[n] = Cardinality(Left(wires, ToSet(s.resolved), n))
  /\ \A n \in ms : n \in ToSet(s.queue) <=> n \notin ToSet(s.resolved) /\ s.degree[n] = 0
  /\ \A i \in DOMAIN s.resolved :
       \A k \in Into(wires, s.resolved[i]) : wires[k][1] \in Before(s.resolved, i)
  /\ heap => \A n \in ToSet(s.queue) : Head(s.queue) <= n
  /\ heap => \A i \in DOMAIN s.resolved :
               \A n \in MayStand(ms, wires, s.resolved, i) : s.resolved[i] <= n

(* There are finitely many cables to count, and none only if no cable is.  *)
LEMMA LeftIsFinite ==
  ASSUME NEW ms, NEW wires \in Seq(ms \X ms), NEW done, NEW n
  PROVE  /\ IsFiniteSet(Left(wires, done, n)) /\ Cardinality(Left(wires, done, n)) \in Nat
         /\ Cardinality(Left(wires, done, n)) = 0 <=> Left(wires, done, n) = {}
         /\ IsFiniteSet(Into(wires, n)) /\ Left(wires, done, n) \subseteq Into(wires, n)
  <1>1. Len(wires) \in Nat /\ DOMAIN wires = 1 .. Len(wires)
    OBVIOUS
  <1>2. IsFiniteSet(DOMAIN wires)
    BY <1>1, FS_Interval
  <1>3. Into(wires, n) \subseteq DOMAIN wires /\ Left(wires, done, n) \subseteq Into(wires, n)
    BY DEF Into, Left
  <1>4. IsFiniteSet(Into(wires, n)) /\ IsFiniteSet(Left(wires, done, n))
    BY <1>2, <1>3, FS_Subset
  <1> QED
    BY <1>3, <1>4, FS_CardinalityType, FS_EmptySet

(* The algorithm begins in order.                                          *)
LEMMA KahnAtFirst ==
  ASSUME NEW heap \in BOOLEAN, NEW ms, IsFiniteSet(ms), ms \subseteq Nat,
         NEW wires \in Seq(ms \X ms)
  PROVE  KahnInv(heap, ms, wires, Seeded(ms, wires)) /\ Seeded(ms, wires).resolved = <<>>
  <1> DEFINE s == Seeded(ms, wires)
             free == {m \in ms : InDegree(ms, wires)[m] = 0}
  <1>1. s.degree = InDegree(ms, wires) /\ s.resolved = <<>> /\ s.queue = Ascending(free)
    BY DEF Seeded
  <1>2. \A n \in ms : InDegree(ms, wires)[n] = Cardinality(Left(wires, {}, n))
                      /\ InDegree(ms, wires)[n] \in Nat
    <2> TAKE n \in ms
    <2>1. Left(wires, {}, n) = Into(wires, n)
      BY DEF Left
    <2> QED
      BY <2>1, LeftIsFinite DEF InDegree
  <1>3. InDegree(ms, wires) \in [ms -> Nat]
    <2>1. InDegree(ms, wires) = [n \in ms |-> InDegree(ms, wires)[n]]
      BY DEF InDegree
    <2> QED
      BY <1>2, <2>1
  <1>4. free \subseteq ms /\ IsFiniteSet(free) /\ free \subseteq Nat
    BY FS_Subset
  <1> HIDE DEF s, free
  <1>5. /\ Ascending(free) \in Seq(free) /\ ToSet(Ascending(free)) = free
        /\ Single(Ascending(free))
        /\ free # {} => \A x \in free : Head(Ascending(free)) <= x
    BY <1>4, AscendingIs DEF Single
  <1>6. s.queue \in Seq(ms)
    BY <1>1, <1>4, <1>5, WiderList
  <1>7. ToSet(s.resolved) = {} /\ DOMAIN s.resolved = {} /\ s.resolved \in Seq(ms)
    BY <1>1 DEF ToSet
  <1>8. \A n \in ms : n \in free <=> s.degree[n] = 0
    BY <1>1 DEF free
  <1> QED
    BY <1>1, <1>2, <1>3, <1>5, <1>6, <1>7, <1>8 DEF KahnInv, Single, s

(* What taking a module leaves of the cables into n.                       *)
LEMMA LeftAfter ==
  ASSUME NEW wires, IsFiniteSet(DOMAIN wires), NEW X, NEW x, NEW y, x \notin X
  PROVE  Cardinality(Left(wires, X \cup {x}, y))
           = Cardinality(Left(wires, X, y)) - Cardinality(Feeding(wires, x, y))
  <1>1. Left(wires, X \cup {x}, y) = Left(wires, X, y) \ Feeding(wires, x, y)
    BY DEF Left, Feeding
  <1>2. Feeding(wires, x, y) \subseteq Left(wires, X, y)
    BY DEF Left, Feeding
  <1>3. IsFiniteSet(Left(wires, X, y)) /\ IsFiniteSet(Feeding(wires, x, y))
    <2>1. Left(wires, X, y) \subseteq DOMAIN wires
      BY DEF Left, Into
    <2> QED
      BY <1>2, <2>1, FS_Subset
  <1>4. Left(wires, X, y) \cap Feeding(wires, x, y) = Feeding(wires, x, y)
    BY <1>2
  <1> QED
    BY <1>1, <1>3, <1>4, FS_Difference

(* A round that takes a module keeps all of it.                            *)
LEMMA KahnGoesOn ==
  ASSUME NEW heap \in BOOLEAN, NEW ms, IsFiniteSet(ms), ms \subseteq Nat,
         NEW wires \in Seq(ms \X ms), NEW s, KahnInv(heap, ms, wires, s), s.queue # <<>>
  PROVE  KahnInv(heap, ms, wires, Taken(heap, wires, s))
  <1> DEFINE t == Taken(heap, wires, s)
             m == Head(s.queue)
             done == ToSet(s.resolved)
             left == [n \in ms |-> s.degree[n] - Cardinality(Feeding(wires, m, n))]
             freed == {n \in ms : s.degree[n] > 0 /\ left[n] = 0}
             tail == Tail(s.queue)
  <1>1. DOMAIN s.degree = ms
    BY DEF KahnInv
  <1>2. t.degree = left /\ t.resolved = Append(s.resolved, m)
        /\ t.queue = Queued(heap, tail, freed)
    BY <1>1 DEF Taken
  <1>3. \A n \in ms : left[n] = s.degree[n] - Cardinality(Feeding(wires, m, n))
    OBVIOUS
  <1>3a. DOMAIN left = ms /\ left = [n \in ms |-> left[n]]
    OBVIOUS
  <1>4. freed \subseteq ms /\ \A n \in ms : n \in freed <=> s.degree[n] > 0 /\ left[n] = 0
    OBVIOUS
  <1> HIDE DEF t, m, done, left, freed, tail
  <1>5. m \in ms /\ m \in ToSet(s.queue) /\ tail \in Seq(ms) /\ Single(tail)
        /\ ToSet(tail) = ToSet(s.queue) \ {m}
    BY HeadLeaves DEF KahnInv, m, tail
  <1>6. m \notin done /\ s.degree[m] = 0
    BY <1>5 DEF KahnInv, done
  <1>7. /\ t.resolved \in Seq(ms) /\ Single(t.resolved) /\ ToSet(t.resolved) = done \cup {m}
        /\ Len(t.resolved) = Len(s.resolved) + 1 /\ t.resolved[Len(s.resolved) + 1] = m
        /\ DOMAIN t.resolved = 1 .. Len(s.resolved) + 1
        /\ DOMAIN s.resolved = 1 .. Len(s.resolved) /\ Len(s.resolved) \in Nat
        /\ \A i \in DOMAIN s.resolved : t.resolved[i] = s.resolved[i]
    BY <1>2, <1>5, <1>6, OneFollows DEF KahnInv, done
  <1>8. \A n \in ms : /\ left[n] = Cardinality(Left(wires, done \cup {m}, n)) /\ left[n] \in Nat
                      /\ left[n] = 0 <=> Left(wires, done \cup {m}, n) = {}
                      /\ s.degree[n] = Cardinality(Left(wires, done, n)) /\ s.degree[n] \in Nat
                      /\ s.degree[n] = 0 <=> Left(wires, done, n) = {}
                      /\ Left(wires, done \cup {m}, n) \subseteq Left(wires, done, n)
    <2> TAKE n \in ms
    <2>1. s.degree[n] = Cardinality(Left(wires, done, n))
      BY DEF KahnInv, done
    <2>2. left[n] = Cardinality(Left(wires, done \cup {m}, n))
      <3>1. Cardinality(Left(wires, done \cup {m}, n))
              = Cardinality(Left(wires, done, n)) - Cardinality(Feeding(wires, m, n))
        <4>1. \A X, x, y : x \notin X =>
                Cardinality(Left(wires, X \cup {x}, y))
                  = Cardinality(Left(wires, X, y)) - Cardinality(Feeding(wires, x, y))
          <5>1. IsFiniteSet(DOMAIN wires)
            BY FS_Interval
          <5> QED
            BY <5>1, LeftAfter
        <4> QED
          BY <1>6, <4>1
      <3> QED
        BY <1>3, <2>1, <3>1
    <2>3. Left(wires, done \cup {m}, n) \subseteq Left(wires, done, n)
      BY DEF Left
    <2> QED
      BY <2>1, <2>2, <2>3, LeftIsFinite
  <1>9. t.degree \in [ms -> Nat]
    BY <1>2, <1>3a, <1>8
  <1>10. \A n \in done : n \in ms /\ s.degree[n] = 0
    <2> TAKE n \in done
    <2>1. PICK i \in DOMAIN s.resolved : s.resolved[i] = n
      BY DEF done, ToSet
    <2>2. n \in ms
      BY <2>1 DEF KahnInv
    <2>3. \A k \in Into(wires, n) : wires[k][1] \in Before(s.resolved, i)
      BY <2>1 DEF KahnInv
    <2>4. Before(s.resolved, i) \subseteq done
      <3> SUFFICES ASSUME NEW j \in 1 .. i - 1 PROVE s.resolved[j] \in done
        BY DEF Before
      <3>1. j \in DOMAIN s.resolved
        <4>1. s.resolved \in Seq(ms)
          BY DEF KahnInv
        <4> QED
          BY <4>1
      <3> QED
        BY <3>1 DEF done, ToSet
    <2>5. Left(wires, done, n) = {}
      BY <2>3, <2>4 DEF Left
    <2> QED
      BY <1>8, <2>2, <2>5
  <1>11. \A n \in ms : n \in ToSet(tail) \cup freed <=> n \notin done \cup {m} /\ left[n] = 0
    <2> TAKE n \in ms
    <2>1. n \in ToSet(s.queue) <=> n \notin done /\ s.degree[n] = 0
      BY DEF KahnInv, done
    <2>2. s.degree[n] = 0 => left[n] = 0
      BY <1>8
    <2>3. n \in freed <=> s.degree[n] # 0 /\ left[n] = 0
      BY <1>4, <1>8
    <2>4. n \in done \/ n = m => s.degree[n] = 0
      BY <1>6, <1>10
    <2> QED
      BY <1>5, <2>1, <2>2, <2>3, <2>4
  <1>12. ToSet(tail) \cap freed = {} /\ ToSet(tail) \subseteq ms
    <2>1. ToSet(s.queue) \subseteq ms
      BY DEF KahnInv, ToSet
    <2>2. \A n \in ms : n \in ToSet(s.queue) => s.degree[n] = 0
      BY DEF KahnInv
    <2>3. \A n \in ms : n \in freed => s.degree[n] > 0
      BY <1>4
    <2>4. ~ (0 > 0)
      OBVIOUS
    <2>5. \A n \in ms : n \in ToSet(s.queue) => n \notin freed
      BY <2>2, <2>3, <2>4
    <2> QED
      BY <1>5, <2>1, <2>5
  <1>13. /\ t.queue \in Seq(ms) /\ Single(t.queue) /\ ToSet(t.queue) = ToSet(tail) \cup freed
         /\ heap => \A n \in ToSet(t.queue) : Head(t.queue) <= n
    <2>1. CASE heap
      <3> DEFINE S == ToSet(tail) \cup freed
      <3>1. S \subseteq ms /\ S \subseteq Nat /\ IsFiniteSet(S)
        <4>1. S \subseteq ms
          BY <1>4, <1>12
        <4> QED
          BY <4>1, FS_Subset
      <3>2. t.queue = Ascending(S)
        BY <1>2, <2>1 DEF Queued
      <3> HIDE DEF S
      <3>3. /\ Ascending(S) \in Seq(S) /\ ToSet(Ascending(S)) = S /\ Single(Ascending(S))
            /\ \A x \in S : Head(Ascending(S)) <= x
        BY <3>1, AscendingIs DEF Single
      <3>4. Ascending(S) \in Seq(ms)
        BY <3>1, <3>3, WiderList
      <3> QED
        BY <3>2, <3>3, <3>4 DEF S
    <2>2. CASE ~ heap
      <3>1. t.queue = tail \o Ascending(freed)
        BY <1>2, <2>2 DEF Queued
      <3>2. freed \subseteq Nat /\ IsFiniteSet(freed)
        BY <1>4, FS_Subset
      <3>3. Ascending(freed) \in Seq(freed) /\ ToSet(Ascending(freed)) = freed
            /\ Single(Ascending(freed))
        BY <3>2, AscendingIs DEF Single
      <3>4. Ascending(freed) \in Seq(ms)
        BY <1>4, <3>3, WiderList
      <3> QED
        BY <1>5, <1>12, <2>2, <3>1, <3>3, <3>4, ListsJoin
    <2> QED
      BY <2>1, <2>2
  <1>14. \A i \in DOMAIN t.resolved :
           \/ /\ i \in DOMAIN s.resolved /\ t.resolved[i] = s.resolved[i]
              /\ Before(t.resolved, i) = Before(s.resolved, i)
           \/ i = Len(s.resolved) + 1 /\ t.resolved[i] = m /\ Before(t.resolved, i) = done
    <2> TAKE i \in DOMAIN t.resolved
    <2>1. \A j \in 1 .. i - 1 : j \in DOMAIN s.resolved /\ t.resolved[j] = s.resolved[j]
      BY <1>7
    <2>2. Before(t.resolved, i) = Before(s.resolved, i)
      BY <2>1 DEF Before
    <2>3. CASE i = Len(s.resolved) + 1
      <3>1. 1 .. i - 1 = DOMAIN s.resolved
        BY <1>7, <2>3
      <3>2. Before(s.resolved, i) = done
        BY <3>1 DEF Before, done, ToSet
      <3> QED
        BY <1>7, <2>2, <2>3, <3>2
    <2>4. CASE i # Len(s.resolved) + 1
      BY <1>7, <2>2, <2>4
    <2> QED
      BY <2>3, <2>4
  <1>15. Left(wires, done, m) = {}
    BY <1>5, <1>6, <1>8
  <1>16. \A i \in DOMAIN t.resolved :
           \A k \in Into(wires, t.resolved[i]) : wires[k][1] \in Before(t.resolved, i)
    <2> TAKE i \in DOMAIN t.resolved
    <2>1. CASE i \in DOMAIN s.resolved /\ t.resolved[i] = s.resolved[i]
               /\ Before(t.resolved, i) = Before(s.resolved, i)
      BY <2>1 DEF KahnInv
    <2>2. CASE i = Len(s.resolved) + 1 /\ t.resolved[i] = m /\ Before(t.resolved, i) = done
      BY <1>15, <2>2 DEF Left
    <2> QED
      BY <1>14, <2>1, <2>2
  <1>17. ASSUME heap
         PROVE  \A i \in DOMAIN t.resolved :
                  \A n \in MayStand(ms, wires, t.resolved, i) : t.resolved[i] <= n
    <2> TAKE i \in DOMAIN t.resolved
    <2>1. CASE i \in DOMAIN s.resolved /\ t.resolved[i] = s.resolved[i]
               /\ Before(t.resolved, i) = Before(s.resolved, i)
      <3>1. MayStand(ms, wires, t.resolved, i) = MayStand(ms, wires, s.resolved, i)
        BY <2>1 DEF MayStand
      <3> QED
        BY <1>17, <2>1, <3>1 DEF KahnInv
    <2>2. CASE i = Len(s.resolved) + 1 /\ t.resolved[i] = m /\ Before(t.resolved, i) = done
      <3> SUFFICES ASSUME NEW n \in MayStand(ms, wires, t.resolved, i) PROVE m <= n
        BY <2>2
      <3>1. n \in ms /\ n \notin done /\ Left(wires, done, n) = {}
        BY <2>2 DEF MayStand, Left
      <3>2. n \in ToSet(s.queue)
        BY <1>8, <3>1 DEF KahnInv, done
      <3> QED
        BY <1>17, <3>2 DEF KahnInv, m
    <2> QED
      BY <1>14, <2>1, <2>2
  <1>18. \A n \in ms : t.degree[n] = Cardinality(Left(wires, ToSet(t.resolved), n))
    BY <1>2, <1>7, <1>8
  <1>19. \A n \in ms : n \in ToSet(t.queue) <=> n \notin ToSet(t.resolved) /\ t.degree[n] = 0
    BY <1>2, <1>7, <1>11, <1>13
  <1>20. KahnInv(heap, ms, wires, t)
    BY <1>7, <1>9, <1>13, <1>16, <1>17, <1>18, <1>19 DEF KahnInv
  <1> QED
    BY <1>20 DEF t

(* A list in which nothing comes twice is as long as what it lists.        *)
LEMMA SingleCounts ==
  ASSUME NEW S, NEW q \in Seq(S), Single(q)
  PROVE  /\ ToSet(q) \subseteq S /\ IsFiniteSet(ToSet(q))
         /\ Cardinality(ToSet(q)) = Len(q) /\ Len(q) \in Nat
  <1>0. Len(q) \in Nat /\ DOMAIN q = 1 .. Len(q) /\ q = [i \in 1 .. Len(q) |-> q[i]]
        /\ \A i \in 1 .. Len(q) : q[i] \in S
    OBVIOUS
  <1>1. ToSet(q) = {q[i] : i \in 1 .. Len(q)}
    BY <1>0 DEF ToSet
  <1>2. IsFiniteSet(1 .. Len(q)) /\ Cardinality(1 .. Len(q)) = Len(q)
    BY <1>0, FS_Interval
  <1>3. q \in [1 .. Len(q) -> ToSet(q)]
    BY <1>0, <1>1
  <1>4. q \in Surjection(1 .. Len(q), ToSet(q))
    BY <1>1, <1>3 DEF Surjection
  <1>5. q \in Injection(1 .. Len(q), ToSet(q))
    BY <1>0, <1>3 DEF Injection, IsInjective, Single
  <1>6. IsFiniteSet(ToSet(q)) /\ Cardinality(ToSet(q)) = Cardinality(1 .. Len(q))
    BY <1>2, <1>4, <1>5, FS_Surjection
  <1> QED
    BY <1>0, <1>1, <1>2, <1>6

(* Where Kahn's algorithm ends: nothing is left in the queue.              *)
LEMMA KahnEnds ==
  ASSUME NEW heap \in BOOLEAN, NEW ms, IsFiniteSet(ms), ms \subseteq Nat,
         NEW wires \in Seq(ms \X ms)
  PROVE  \E s : /\ KahnInv(heap, ms, wires, s) /\ s.queue = <<>>
                /\ s.resolved = Resolution(heap, ms, wires)
  <1> DEFINE N == Cardinality(ms)
             run == Resolving(heap, ms, wires)
             good(i) == KahnInv(heap, ms, wires, run[i])
                        /\ (run[i].queue = <<>> \/ Len(run[i].resolved) = i)
             failing == {i \in 0 .. N : ~ good(i)}
  <1>1. N \in Nat /\ run[0] = Seeded(ms, wires)
        /\ \A i \in 1 .. N : run[i] = TakeOne(heap, wires, run[i - 1])
    BY Turns
  <1>2. good(0)
    <2>1. KahnInv(heap, ms, wires, run[0]) /\ run[0].resolved = <<>>
      BY <1>1, KahnAtFirst
    <2>2. Len(run[0].resolved) = 0
      BY <2>1
    <2> QED
      BY <2>1, <2>2
  <1>3. ASSUME NEW i \in 1 .. N, good(i - 1) PROVE good(i)
    <2>0. PICK prev : prev = run[i - 1]
      OBVIOUS
    <2>1. run[i] = TakeOne(heap, wires, prev)
      BY <1>1, <2>0
    <2>2. CASE prev.queue = <<>>
      BY <1>3, <2>0, <2>1, <2>2 DEF TakeOne
    <2>3. CASE prev.queue # <<>>
      <3>1. run[i] = Taken(heap, wires, prev)
        BY <2>1, <2>3 DEF TakeOne
      <3>2. KahnInv(heap, ms, wires, prev) /\ Len(prev.resolved) = i - 1
        BY <1>3, <2>0, <2>3
      <3>3. KahnInv(heap, ms, wires, Taken(heap, wires, prev))
        BY <2>3, <3>2, KahnGoesOn
      <3>5. Taken(heap, wires, prev).resolved = Append(prev.resolved, Head(prev.queue))
        BY DEF Taken
      <3>6. prev.resolved \in Seq(ms)
        BY <3>2 DEF KahnInv
      <3>7. Len(Taken(heap, wires, prev).resolved) = Len(prev.resolved) + 1
        BY <3>5, <3>6
      <3>4. (i - 1) + 1 = i
        BY <1>1
      <3> QED
        BY <3>1, <3>2, <3>3, <3>4, <3>7
    <2> QED
      BY <2>2, <2>3
  <1> HIDE DEF good
  <1>4. failing = {}
    <2> SUFFICES ASSUME failing # {} PROVE FALSE
      OBVIOUS
    <2>1. failing \subseteq Nat
      BY <1>1
    <2>2. PICK i \in failing : \A j \in failing : i <= j
      BY <2>1, LeastNatural
    <2>3. i \in 0 .. N /\ ~ good(i) /\ i # 0
      BY <1>2, <2>2
    <2>4. i \in 1 .. N /\ i - 1 \in 0 .. N /\ ~ (i <= i - 1)
      BY <1>1, <2>3
    <2>5. good(i - 1)
      BY <2>2, <2>4
    <2> QED
      BY <1>3, <2>3, <2>4, <2>5
  <1>5. good(N)
    <2>1. N \in 0 .. N
      BY <1>1
    <2> QED
      BY <1>4, <2>1
  <1> DEFINE last == run[N]
  <1>6. KahnInv(heap, ms, wires, last) /\ (last.queue = <<>> \/ Len(last.resolved) = N)
    BY <1>5 DEF good
  <1>7. last.resolved = Resolution(heap, ms, wires)
    BY DEF Resolution
  <1> HIDE DEF last
  <1>8. last.queue = <<>>
    <2> SUFFICES ASSUME Len(last.resolved) = N PROVE last.queue = <<>>
      BY <1>6
    <2>1. last.resolved \in Seq(ms) /\ Single(last.resolved)
      BY <1>6 DEF KahnInv
    <2>2. ToSet(last.resolved) \subseteq ms /\ Cardinality(ToSet(last.resolved)) = N
      BY <2>1, SingleCounts
    <2>3. ToSet(last.resolved) = ms
      BY <2>2, FS_Subset
    <2>4. last.queue \in Seq(ms) /\ \A n \in ms : n \notin ToSet(last.queue)
      BY <1>6, <2>3 DEF KahnInv
    <2>5. ToSet(last.queue) = {last.queue[i] : i \in 1 .. Len(last.queue)}
          /\ Len(last.queue) \in Nat /\ \A i \in 1 .. Len(last.queue) : last.queue[i] \in ms
      BY <2>4 DEF ToSet
    <2>6. ~ (1 \in 1 .. Len(last.queue))
      BY <2>4, <2>5
    <2>7. Len(last.queue) = 0
      BY <2>5, <2>6
    <2> QED
      BY <2>4, <2>7
  <1> QED
    BY <1>6, <1>7, <1>8

(* Reaching: from itself, along a cable, on from what is reached, and no   *)
(* further than any closed set.                                            *)
LEMMA DownstreamHas ==
  ASSUME NEW ms, NEW wires
  PROVE  /\ \A m \in ms : m \in Downstream(ms, wires, m)
         /\ \A k \in DOMAIN wires : wires[k][1] \in ms /\ wires[k][2] \in ms
              => wires[k][2] \in Downstream(ms, wires, wires[k][1])
         /\ \A m, n, p : /\ n \in Downstream(ms, wires, m) /\ p \in Downstream(ms, wires, n)
                         => p \in Downstream(ms, wires, m)
         /\ \A m, X : X \subseteq ms /\ m \in X /\ ClosedUnder(wires, X)
                      => Downstream(ms, wires, m) \subseteq X
  <1>1. \A m \in ms : m \in Downstream(ms, wires, m)
    BY DEF Downstream
  <1>2. ASSUME NEW k \in DOMAIN wires, wires[k][1] \in ms, wires[k][2] \in ms
        PROVE  wires[k][2] \in Downstream(ms, wires, wires[k][1])
    <2>1. wires[k] \in ToSet(wires)
      BY DEF ToSet
    <2> QED
      BY <1>2, <2>1 DEF Downstream, ClosedUnder
  <1>3. ASSUME NEW m, NEW n, NEW p, n \in Downstream(ms, wires, m), p \in Downstream(ms, wires, n)
        PROVE  p \in Downstream(ms, wires, m)
    <2> SUFFICES ASSUME NEW X \in SUBSET ms, m \in X, ClosedUnder(wires, X) PROVE p \in X
      BY <1>3 DEF Downstream
    <2>1. n \in X
      BY <1>3 DEF Downstream
    <2> QED
      BY <1>3, <2>1 DEF Downstream
  <1>4. ASSUME NEW m, NEW X, X \subseteq ms, m \in X, ClosedUnder(wires, X)
        PROVE  Downstream(ms, wires, m) \subseteq X
    BY <1>4 DEF Downstream
  <1> QED
    BY <1>1, <1>2, <1>3, <1>4

(* No cable leads back before a place of the order.                        *)
LEMMA NoWayBack ==
  ASSUME NEW heap, NEW ms, NEW wires \in Seq(ms \X ms), NEW s, KahnInv(heap, ms, wires, s),
         NEW i \in 1 .. Len(s.resolved) + 1
  PROVE  ClosedUnder(wires, ms \ Before(s.resolved, i))
  <1> DEFINE q == s.resolved
  <1>1. /\ q \in Seq(ms)
        /\ \A b \in DOMAIN q : \A k \in Into(wires, q[b]) : wires[k][1] \in Before(q, b)
    BY DEF KahnInv
  <1> HIDE DEF q
  <1>2. Len(q) \in Nat /\ DOMAIN q = 1 .. Len(q)
    BY <1>1
  <1> SUFFICES ASSUME NEW w \in ToSet(wires), w[1] \in ms \ Before(q, i)
               PROVE  w[2] \in ms \ Before(q, i)
    BY DEF ClosedUnder, q
  <1>3. PICK k \in DOMAIN wires : wires[k] = w
    BY DEF ToSet
  <1>4. w \in ms \X ms
    BY <1>3
  <1>5. ASSUME w[2] \in Before(q, i) PROVE FALSE
    <2>1. PICK b \in 1 .. i - 1 : q[b] = w[2]
      BY <1>5 DEF Before
    <2>2. b \in DOMAIN q /\ 1 .. b - 1 \subseteq 1 .. i - 1
      BY <1>2 DEF q
    <2>3. k \in Into(wires, q[b])
      BY <1>3, <1>5, <2>1 DEF Into
    <2>4. w[1] \in Before(q, b)
      BY <1>1, <1>3, <2>2, <2>3
    <2> QED
      BY <2>2, <2>4 DEF Before
  <1> QED
    BY <1>4, <1>5

(* What was resolved lies on no loop.                                      *)
LEMMA ResolvedHasNoLoop ==
  ASSUME NEW heap, NEW ms, NEW wires \in Seq(ms \X ms), NEW s, KahnInv(heap, ms, wires, s)
  PROVE  /\ ClosedUnder(wires, ms \ ToSet(s.resolved))
         /\ \A m \in ToSet(s.resolved) : m \notin OnALoop(ms, wires)
  <1> DEFINE q == s.resolved
  <1>1. q \in Seq(ms) /\ Single(q)
    BY DEF KahnInv
  <1>2. \A i \in 1 .. Len(q) + 1 : ClosedUnder(wires, ms \ Before(q, i))
    BY NoWayBack
  <1> HIDE DEF q
  <1>3. Len(q) \in Nat /\ DOMAIN q = 1 .. Len(q)
    BY <1>1
  <1>4. ClosedUnder(wires, ms \ ToSet(q))
    <2>1. Before(q, Len(q) + 1) = ToSet(q)
      BY <1>3 DEF Before, ToSet
    <2>2. Len(q) + 1 \in 1 .. Len(q) + 1
      BY <1>3
    <2> QED
      BY <1>2, <2>1, <2>2
  <1>5. ASSUME NEW i \in DOMAIN q
        PROVE  Downstream(ms, wires, q[i]) \subseteq ms \ Before(q, i)
    <2>1. q[i] \in ms \ Before(q, i)
      <3> SUFFICES ASSUME NEW j \in 1 .. i - 1, q[j] = q[i] PROVE FALSE
        BY <1>1 DEF Before
      <3>1. j \in DOMAIN q /\ j # i
        BY <1>3
      <3> QED
        BY <1>1, <3>1 DEF Single
    <2>2. i \in 1 .. Len(q) + 1
      BY <1>3
    <2> QED
      BY <1>2, <2>1, <2>2, DownstreamHas
  <1>6. ASSUME NEW m \in ToSet(q), NEW n \in Downstream(ms, wires, m) \ {m},
               m \in Downstream(ms, wires, n)
        PROVE  FALSE
    <2>1. PICK i \in DOMAIN q : q[i] = m
      BY DEF ToSet
    <2>2. n \in ToSet(q)
      <3>1. m \in ms /\ n \in ms
        BY <1>1, <2>1 DEF Downstream
      <3>2. ASSUME n \notin ToSet(q) PROVE FALSE
        BY <1>4, <1>6, <3>1, <3>2, DownstreamHas
      <3> QED
        BY <3>2
    <2>3. PICK j \in DOMAIN q : q[j] = n
      BY <2>2 DEF ToSet
    <2>4. n \notin Before(q, i) /\ m \notin Before(q, j)
      BY <1>5, <1>6, <2>1, <2>3
    <2>5. i # j
      BY <2>1, <2>3
    <2> QED
      BY <1>3, <2>1, <2>3, <2>4, <2>5 DEF Before
  <1>7. \A m \in ms : Downstream(ms, wires, m) \subseteq ms
    BY DEF Downstream
  <1> QED
    BY <1>4, <1>6, <1>7 DEF OnALoop, q

(* An order in which each module comes after its feeders leaves no loop.   *)
LEMMA OrderedHasNoLoop ==
  ASSUME NEW heap, NEW ms, NEW wires \in Seq(ms \X ms), NEW s,
         KahnInv(heap, ms, wires, s), ToSet(s.resolved) = ms
  PROVE  OnALoop(ms, wires) = {}
  <1>1. \A m \in ms : m \notin OnALoop(ms, wires)
    BY ResolvedHasNoLoop
  <1> QED
    BY <1>1 DEF OnALoop

(* Modules that wait for each other with none free lie on a loop.          *)
LEMMA StuckHasALoop ==
  ASSUME NEW heap, NEW ms, IsFiniteSet(ms), NEW wires \in Seq(ms \X ms), NEW s,
         KahnInv(heap, ms, wires, s), s.queue = <<>>, ToSet(s.resolved) # ms
  PROVE  OnALoop(ms, wires) # {}
  <1> DEFINE stuck == ms \ ToSet(s.resolved)
             up(m) == {n \in stuck : m \in Downstream(ms, wires, n)}
             sizes == {Cardinality(up(m)) : m \in stuck}
  <1>1. stuck # {}
    BY DEF KahnInv, ToSet
  <1>2. ASSUME NEW m \in stuck
        PROVE  \E k \in stuck : k # m /\ m \in Downstream(ms, wires, k)
    <2>1. s.degree[m] # 0
      <3>1. m \notin ToSet(s.queue)
        BY DEF ToSet
      <3> QED
        BY <3>1 DEF KahnInv
    <2>2. Left(wires, ToSet(s.resolved), m) # {}
      <3>1. s.degree[m] = Cardinality(Left(wires, ToSet(s.resolved), m))
        BY DEF KahnInv
      <3> QED
        BY <2>1, <3>1, LeftIsFinite
    <2>3. PICK i \in DOMAIN wires : /\ wires[i][2] = m /\ wires[i][1] # m
                                    /\ wires[i][1] \notin ToSet(s.resolved)
      BY <2>2 DEF Left, Into
    <2>4. wires[i] \in ms \X ms
      OBVIOUS
    <2>5. wires[i][1] \in ms /\ wires[i][2] \in ms
      BY <2>4
    <2>6. m \in Downstream(ms, wires, wires[i][1])
      BY <2>3, <2>5, DownstreamHas
    <2> QED
      BY <2>3, <2>5, <2>6
  <1>3. \A m \in stuck : IsFiniteSet(up(m)) /\ Cardinality(up(m)) \in Nat
    <2> TAKE m \in stuck
    <2>1. up(m) \subseteq ms
      OBVIOUS
    <2> HIDE DEF up
    <2> QED
      BY <2>1, FS_Subset, FS_CardinalityType
  <1> HIDE DEF up, stuck
  <1>4. PICK m \in stuck : \A n \in stuck : Cardinality(up(m)) <= Cardinality(up(n))
    <2>1. sizes \subseteq Nat /\ sizes # {}
      BY <1>1, <1>3
    <2>2. PICK c \in sizes : \A d \in sizes : c <= d
      <3> HIDE DEF sizes
      <3> QED
        BY <2>1, LeastNatural
    <2> QED
      BY <2>2
  <1>5. PICK k \in stuck : k # m /\ m \in Downstream(ms, wires, k)
    BY <1>2
  <1>6. up(k) \subseteq up(m)
    BY <1>5, DownstreamHas DEF up
  <1>7. Cardinality(up(k)) = Cardinality(up(m))
    <2>1. Cardinality(up(k)) <= Cardinality(up(m))
      BY <1>3, <1>6, FS_Subset
    <2> QED
      BY <1>3, <1>4, <2>1
  <1>8. up(k) = up(m)
    BY <1>3, <1>6, <1>7, FS_Subset
  <1>9. m \in ms /\ k \in ms
    BY DEF stuck
  <1>10. m \in up(m)
    BY <1>9, DownstreamHas DEF up
  <1>11. k \in Downstream(ms, wires, m)
    BY <1>8, <1>10 DEF up
  <1>12. m \in OnALoop(ms, wires)
    BY <1>5, <1>9, <1>11 DEF OnALoop
  <1> QED
    BY <1>12

(* On any finite rack and any wiring, both algorithms resolve all modules  *)
(* exactly when none lies on a loop, and the tick order is the one with    *)
(* the least names first.                                                  *)
THEOREM BothOrdersFound ==
  ASSUME NEW ms, IsFiniteSet(ms), ms \subseteq Nat, NEW wires \in Seq(ms \X ms)
  PROVE  OrdersFound(ms, wires)
  <1>1. ASSUME NEW heap \in BOOLEAN
        PROVE  /\ Ticks(heap, ms, wires) <=> OnALoop(ms, wires) = {}
               /\ heap /\ Ticks(heap, ms, wires)
                    => LeastFirst(ms, wires, Resolution(heap, ms, wires))
    <2>1. PICK s : /\ KahnInv(heap, ms, wires, s) /\ s.queue = <<>>
                   /\ s.resolved = Resolution(heap, ms, wires)
      BY KahnEnds
    <2> DEFINE q == s.resolved
    <2>2. /\ ToSet(q) \subseteq ms /\ IsFiniteSet(ToSet(q)) /\ Cardinality(ToSet(q)) = Len(q)
          /\ Len(q) \in Nat /\ q \in Seq(ms) /\ DOMAIN q = 1 .. Len(q) /\ Single(q)
      BY <2>1, SingleCounts DEF KahnInv
    <2>3. Ticks(heap, ms, wires) <=> ToSet(q) = ms
      BY <2>1, <2>2, FS_Subset DEF Ticks
    <2>4. Ticks(heap, ms, wires) <=> OnALoop(ms, wires) = {}
      BY <2>1, <2>3, OrderedHasNoLoop, StuckHasALoop
    <2>5. ASSUME heap, Ticks(heap, ms, wires)
          PROVE  LeastFirst(ms, wires, Resolution(heap, ms, wires))
      <3>1. ToSet(q) = ms /\ Len(q) = Cardinality(ms)
        BY <2>3, <2>5, <2>1 DEF Ticks
      <3>2. ASSUME NEW i \in DOMAIN q
            PROVE  q[i] \in MayStand(ms, wires, q, i)
                   /\ \A n \in MayStand(ms, wires, q, i) : q[i] <= n
        <4>1. q[i] \in ms /\ \A k \in Into(wires, q[i]) : wires[k][1] \in Before(q, i)
          BY <2>1, <2>2 DEF KahnInv
        <4>2. q[i] \notin Before(q, i)
          <5> SUFFICES ASSUME NEW j \in 1 .. i - 1, q[j] = q[i] PROVE FALSE
            BY DEF Before
          <5>1. j \in DOMAIN q /\ j # i
            BY <2>2
          <5> QED
            BY <2>2, <5>1 DEF Single
        <4>3. \A n \in MayStand(ms, wires, q, i) : q[i] <= n
          BY <2>1, <2>5 DEF KahnInv
        <4> QED
          BY <4>1, <4>2, <4>3 DEF MayStand
      <3>3. \A i \in DOMAIN q :
              MayStand(ms, wires, q, i)
                = {n \in ms \ {q[j] : j \in 1 .. i - 1} :
                     \A k \in Into(wires, n) : wires[k][1] \in {q[j] : j \in 1 .. i - 1}}
        BY DEF MayStand, Before
      <3> QED
        BY <2>1, <3>1, <3>2, <3>3 DEF LeastFirst
    <2> QED
      BY <2>4, <2>5
  <1> QED
    BY <1>1 DEF OrdersFound

-----------------------------------------------------------------------------
(* The queries of the graph view.                                          *)
(* The view once no message waits: its nodes and edges are the modules and *)
(* cables of the world, and a cable is found under its entity.             *)
InView == GraphInv /\ GraphFollows /\ Settled

(* Nodes, edges and cables of such a view.                                 *)
LEMMA ViewIs ==
  ASSUME InView
  PROVE  /\ graph.nodes = modules /\ graph.by_instance_name = modules
         /\ GraphEdges = {EdgeOf(c) : c \in cables}
         /\ \A c \in cables : /\ CableWith(c.id) = c /\ c \in Cable
                              /\ c.source \in Ports /\ c.target \in Ports
                              /\ Owner[c.source] \in modules /\ Owner[c.target] \in modules
                              /\ EdgeOf(c).cable = c.id /\ EdgeOf(c).source = Owner[c.source]
                              /\ EdgeOf(c).target = Owner[c.target]
         /\ IsFiniteSet(modules) /\ Cardinality(modules) \in Nat
  <1>1. /\ graph.nodes = modules /\ graph.by_instance_name = modules
        /\ \A c \in cables : graph.edge_by_entity[c.id] \in DOMAIN graph.edges
                             /\ graph.edges[graph.edge_by_entity[c.id]] = EdgeOf(c)
        /\ \A i \in DOMAIN graph.edges : \E c \in cables : graph.edge_by_entity[c.id] = i
    BY DEF InView, GraphFollows, Settled
  <1>2. GraphEdges = {EdgeOf(c) : c \in cables}
    BY <1>1 DEF GraphEdges, Range
  <1>3. ASSUME NEW c \in cables
        PROVE  /\ CableWith(c.id) = c /\ c \in Cable
               /\ c.source \in Ports /\ c.target \in Ports
               /\ Owner[c.source] \in modules /\ Owner[c.target] \in modules
    <2>1. c \in Cable /\ \A d \in cables : d.id = c.id => d = c
      BY DEF InView, GraphInv, IndexInv, EntitiesApart
    <2>2. CableWith(c.id) = c
      BY <2>1 DEF CableWith
    <2>3. Owner[c.source] \in modules /\ Owner[c.target] \in modules
      BY DEF InView, GraphInv, Legal
    <2> QED
      BY <2>1, <2>2, <2>3 DEF Cable
  <1>4. \A c \in cables : /\ EdgeOf(c).cable = c.id /\ EdgeOf(c).source = Owner[c.source]
                          /\ EdgeOf(c).target = Owner[c.target]
    BY DEF EdgeOf
  <1>5. IsFiniteSet(modules) /\ Cardinality(modules) \in Nat
    BY JacksAssumption, FS_Subset, FS_CardinalityType DEF InView, GraphInv, JacksAssumption
  <1> QED
    BY <1>1, <1>2, <1>3, <1>4, <1>5

(* Who feeds whom, in the view as in the world.                            *)
LEMMA NeighboursAre ==
  ASSUME InView
  PROVE  /\ \A m : DownstreamOf(m) = {Owner[c.target] : c \in {d \in cables : Owner[d.source] = m}}
         /\ \A m : UpstreamOf(m) = {Owner[c.source] : c \in {d \in cables : Owner[d.target] = m}}
         /\ \A m, n : m \in UpstreamOf(n) <=> n \in DownstreamOf(m)
         /\ \A m, forward : Beside(m, forward) \subseteq modules
  <1>1. \A m : DownstreamOf(m) = {Owner[c.target] : c \in {d \in cables : Owner[d.source] = m}}
    BY ViewIs DEF DownstreamOf, Outgoing
  <1>2. \A m : UpstreamOf(m) = {Owner[c.source] : c \in {d \in cables : Owner[d.target] = m}}
    BY ViewIs DEF UpstreamOf, Incoming
  <1>3. \A m, n : m \in UpstreamOf(n) <=> n \in DownstreamOf(m)
    BY <1>1, <1>2
  <1>4. \A m : DownstreamOf(m) \subseteq modules /\ UpstreamOf(m) \subseteq modules
    BY <1>1, <1>2, ViewIs
  <1> QED
    BY <1>1, <1>2, <1>3, <1>4 DEF Beside

(* The rounds of the search along the edges.                               *)
Widened(X, forward) == X \cup UNION {Beside(n, forward) : n \in X}
AreWidenings(f, m, forward, count) ==
  f = [i \in 0 .. count |->
         IF i = 0 THEN {m} \cap graph.nodes ELSE Widened(f[i - 1], forward)]

(* The rounds are well defined.                                            *)
LEMMA WideningsExist ==
  ASSUME NEW m, NEW forward, NEW count \in Nat
  PROVE  \E f : AreWidenings(f, m, forward, count)
  <1> DEFINE a == {m} \cap graph.nodes
             Rounds(f, k) == f = [i \in 0 .. k |-> IF i = 0 THEN a ELSE Widened(f[i - 1], forward)]
             failing == {k \in Nat : ~ \E f : Rounds(f, k)}
  <1> USE DEF AreWidenings
  <1> SUFFICES ASSUME failing # {} PROVE FALSE
    OBVIOUS
  <1> HIDE DEF a
  <1>1. PICK k \in failing : \A j \in failing : k <= j
    <2>1. failing \subseteq Nat
      OBVIOUS
    <2> HIDE DEF failing
    <2> QED
      BY <2>1, LeastNatural
  <1>2. CASE k = 0
    <2>1. Rounds([i \in 0 .. 0 |-> a], 0)
      OBVIOUS
    <2> QED
      BY <1>1, <1>2, <2>1
  <1>3. CASE k # 0
    <2>0. k \in Nat
      BY <1>1
    <2>1. k - 1 \in Nat /\ k - 1 \notin failing
      <3> HIDE DEF failing
      <3> QED
        BY <1>1, <1>3, <2>0
    <2>2. PICK g : Rounds(g, k - 1)
      BY <2>1
    <2> DEFINE f == [i \in 0 .. k |-> IF i = k THEN Widened(g[k - 1], forward) ELSE g[i]]
    <2>3. \A i \in 0 .. k - 1 : g[i] = IF i = 0 THEN a ELSE Widened(g[i - 1], forward)
      <3>1. \A i \in 0 .. k - 1 :
              [j \in 0 .. k - 1 |-> IF j = 0 THEN a ELSE Widened(g[j - 1], forward)][i]
                = IF i = 0 THEN a ELSE Widened(g[i - 1], forward)
        OBVIOUS
      <3> QED
        BY <2>2, <3>1, Zenon
    <2>4. \A i \in 0 .. k : f[i] = IF i = 0 THEN a ELSE Widened(f[i - 1], forward)
      <3> SUFFICES ASSUME NEW i \in 0 .. k
                   PROVE  f[i] = IF i = 0 THEN a ELSE Widened(f[i - 1], forward)
        OBVIOUS
      <3>1. CASE i = k
        <4>1. f[k] = Widened(g[k - 1], forward) /\ f[k - 1] = g[k - 1]
          BY <2>1, <1>3
        <4> QED
          BY <3>1, <1>3, <4>1
      <3>2. CASE i # k /\ i # 0
        <4>1. i \in 0 .. k - 1 /\ i - 1 \in 0 .. k - 1
          BY <2>1, <3>2
        <4>2. f[i] = g[i] /\ f[i - 1] = g[i - 1]
          BY <4>1, <2>1
        <4> QED
          BY <2>3, <3>2, <4>1, <4>2
      <3>3. CASE i # k /\ i = 0
        BY <2>1, <2>3, <3>3
      <3> QED
        BY <3>1, <3>2, <3>3
    <2>5. Rounds(f, k)
      BY <2>4
    <2> QED
      BY <1>1, <2>5
  <1> QED
    BY <1>2, <1>3

(* The rounds are what their recursion says, and the last is the answer.   *)
LEMMA Widenings ==
  ASSUME InView, NEW m \in modules, NEW forward
  PROVE  /\ Searching(m, forward)[0] = {m}
         /\ \A i \in 1 .. Cardinality(modules) :
              Searching(m, forward)[i] = Widened(Searching(m, forward)[i - 1], forward)
         /\ Searched(m, forward) = Searching(m, forward)[Cardinality(modules)]
  <1> DEFINE N == Cardinality(graph.nodes)
             R == Searching(m, forward)
  <1>1. N \in Nat /\ graph.nodes = modules
    BY ViewIs
  <1>2. R = [i \in 0 .. N |->
               IF i = 0 THEN {m} \cap graph.nodes ELSE Widened(R[i - 1], forward)]
    <2>1. \E f : AreWidenings(f, m, forward, N)
      BY <1>1, WideningsExist
    <2>2. R = CHOOSE f : AreWidenings(f, m, forward, N)
      BY Zenon DEF Searching, AreWidenings, Widened
    <2>3. AreWidenings(R, m, forward, N)
      BY <2>1, <2>2, Zenon
    <2> QED
      BY <2>3, Zenon DEF AreWidenings
  <1> HIDE DEF R
  <1>3. \A i \in 0 .. N :
          R[i] = IF i = 0 THEN {m} \cap graph.nodes ELSE Widened(R[i - 1], forward)
    <2>1. \A i \in 0 .. N :
            [j \in 0 .. N |->
               IF j = 0 THEN {m} \cap graph.nodes ELSE Widened(R[j - 1], forward)][i]
              = IF i = 0 THEN {m} \cap graph.nodes ELSE Widened(R[i - 1], forward)
      OBVIOUS
    <2> QED
      BY <1>2, <2>1, Zenon
  <1>4. R[0] = {m} /\ \A i \in 1 .. N : R[i] = Widened(R[i - 1], forward)
    BY <1>1, <1>3
  <1>5. Searched(m, forward) = R[N]
    BY DEF Searched, R
  <1> QED
    BY <1>1, <1>4, <1>5 DEF R

(* Sets that the search from one of their members does not leave.          *)
ShutBeside(X, forward) == \A n \in X : Beside(n, forward) \subseteq X

(* The search finds the least of them that has m.                          *)
LEMMA SearchFinds ==
  ASSUME InView, NEW m \in modules, NEW forward
  PROVE  /\ m \in Searched(m, forward) /\ Searched(m, forward) \subseteq modules
         /\ ShutBeside(Searched(m, forward), forward)
         /\ \A X : m \in X /\ ShutBeside(X, forward) => Searched(m, forward) \subseteq X
  <1> DEFINE N == Cardinality(modules)
             R == Searching(m, forward)
             inside(Y) == \A X : m \in X /\ ShutBeside(X, forward) => Y \subseteq X
             good(i) == /\ m \in R[i] /\ R[i] \subseteq modules /\ inside(R[i])
                        /\ ShutBeside(R[i], forward) \/ Cardinality(R[i]) >= i + 1
             failing == {i \in 0 .. N : ~ good(i)}
  <1>1. /\ R[0] = {m} /\ Searched(m, forward) = R[N]
        /\ \A i \in 1 .. N : R[i] = Widened(R[i - 1], forward)
    BY Widenings
  <1>2. N \in Nat /\ IsFiniteSet(modules)
    BY ViewIs
  <1> HIDE DEF N, R
  <1>3. good(0)
    <2>1. Cardinality({m}) = 1
      BY FS_Singleton
    <2> QED
      BY <1>1, <2>1
  <1>4. ASSUME NEW i \in 1 .. N, good(i - 1) PROVE good(i)
    <2>0. PICK Y : Y = R[i - 1]
      OBVIOUS
    <2>1. R[i] = Widened(Y, forward)
      BY <1>1, <2>0
    <2>2. m \in Y /\ Y \subseteq modules /\ inside(Y)
          /\ (ShutBeside(Y, forward) \/ Cardinality(Y) >= (i - 1) + 1)
      BY <1>4, <2>0
    <2>3. m \in R[i] /\ Y \subseteq R[i]
      BY <2>1, <2>2 DEF Widened
    <2>4. R[i] \subseteq modules
      BY <2>1, <2>2, NeighboursAre DEF Widened
    <2>5. inside(R[i])
      BY <2>1, <2>2 DEF Widened, ShutBeside
    <2>6. CASE ShutBeside(Y, forward)
      <3>1. R[i] = Y
        BY <2>1, <2>6 DEF Widened, ShutBeside
      <3> QED
        BY <2>3, <2>4, <2>5, <2>6, <3>1
    <2>7. CASE ~ ShutBeside(Y, forward)
      <3>1. R[i] # Y
        BY <2>1, <2>7 DEF Widened, ShutBeside
      <3>2. IsFiniteSet(R[i]) /\ Cardinality(R[i]) \in Nat
        BY <1>2, <2>4, FS_Subset, FS_CardinalityType
      <3>3. Cardinality(Y) < Cardinality(R[i]) /\ Cardinality(Y) \in Nat
        BY <2>3, <3>1, <3>2, SmallerPart, FS_CardinalityType
      <3>4. Cardinality(R[i]) >= i + 1
        BY <1>2, <2>2, <2>7, <3>2, <3>3
      <3> QED
        BY <2>3, <2>4, <2>5, <3>4
    <2> QED
      BY <2>6, <2>7
  <1> HIDE DEF good
  <1>5. failing = {}
    <2> SUFFICES ASSUME failing # {} PROVE FALSE
      OBVIOUS
    <2>1. failing \subseteq Nat
      BY <1>2
    <2>2. PICK i \in failing : \A j \in failing : i <= j
      BY <2>1, LeastNatural
    <2>3. i \in 0 .. N /\ ~ good(i) /\ i # 0
      BY <1>3, <2>2
    <2>4. i \in 1 .. N /\ i - 1 \in 0 .. N /\ ~ (i <= i - 1)
      BY <1>2, <2>3
    <2>5. good(i - 1)
      BY <2>2, <2>4
    <2> QED
      BY <1>4, <2>3, <2>4, <2>5
  <1>6. good(N)
    <2>1. N \in 0 .. N
      BY <1>2
    <2> QED
      BY <1>5, <2>1
  <1>7. ShutBeside(R[N], forward)
    <2> SUFFICES ASSUME Cardinality(R[N]) >= N + 1 PROVE FALSE
      BY <1>6 DEF good
    <2>1. Cardinality(R[N]) <= N /\ IsFiniteSet(R[N])
      BY <1>2, <1>6, FS_Subset DEF good, N
    <2>2. Cardinality(R[N]) \in Nat
      BY <2>1, FS_CardinalityType
    <2> QED
      BY <1>2, <2>1, <2>2
  <1> QED
    BY <1>1, <1>6, <1>7 DEF good

(* The wires of the world are its cables by age, between its modules.      *)
LEMMA WorldWiresAre ==
  ASSUME InView
  PROVE  /\ WorldWires \in Seq(modules \X modules)
         /\ ToSet(WorldWires) = Edges(cables)
  <1> DEFINE sorted == InOrder(cables, Ages(cables))
             N == Cardinality(cables)
  <1>1. IsFiniteSet(cables) /\ StrictOn(Ages(cables), cables)
    BY AgesAreStrict DEF InView, GraphInv, IndexInv
  <1>2. /\ N \in Nat /\ DOMAIN sorted = 1 .. N /\ \A i \in 1 .. N : sorted[i] \in cables
        /\ \A c \in cables : Place(cables, Ages(cables), c) + 1 \in 1 .. N
                             /\ sorted[Place(cables, Ages(cables), c) + 1] = c
    BY <1>1, InOrderLists
  <1>3. WorldWires = [i \in 1 .. N |-> <<Owner[sorted[i].source], Owner[sorted[i].target]>>]
    BY <1>2 DEF WorldWires
  <1>4. \A c \in cables : Owner[c.source] \in modules /\ Owner[c.target] \in modules
    BY ViewIs
  <1> HIDE DEF sorted, N
  <1>5. WorldWires \in [1 .. N -> modules \X modules]
    BY <1>2, <1>3, <1>4
  <1>6. WorldWires \in Seq(modules \X modules) /\ DOMAIN WorldWires = 1 .. N
    BY <1>2, <1>5
  <1>7. ToSet(WorldWires) \subseteq Edges(cables)
    <2> SUFFICES ASSUME NEW i \in 1 .. N PROVE WorldWires[i] \in Edges(cables)
      BY <1>6 DEF ToSet
    <2> QED
      BY <1>2, <1>3 DEF Edges
  <1>8. ASSUME NEW c \in cables
        PROVE  <<Owner[c.source], Owner[c.target]>> \in ToSet(WorldWires)
    <2>1. PICK i \in 1 .. N : sorted[i] = c
      BY <1>2
    <2>2. WorldWires[i] = <<Owner[c.source], Owner[c.target]>>
      BY <1>3, <2>1
    <2> QED
      BY <1>6, <2>2 DEF ToSet
  <1> QED
    BY <1>6, <1>7, <1>8 DEF Edges

(* In the world as in the view: sets closed along the cables.              *)
LEMMA ShutIsClosed ==
  ASSUME InView, NEW X
  PROVE  ShutBeside(X, TRUE) <=> ClosedUnder(WorldWires, X)
  <1>1. ClosedUnder(WorldWires, X) <=>
          \A c \in cables : Owner[c.source] \in X => Owner[c.target] \in X
    <2>1. ClosedUnder(WorldWires, X) <=> \A w \in Edges(cables) : w[1] \in X => w[2] \in X
      BY WorldWiresAre DEF ClosedUnder
    <2>2. \A c \in cables : <<Owner[c.source], Owner[c.target]>> \in Edges(cables)
      BY DEF Edges
    <2>3. \A w \in Edges(cables) : \E c \in cables : w = <<Owner[c.source], Owner[c.target]>>
      BY DEF Edges
    <2>4. ASSUME ClosedUnder(WorldWires, X), NEW c \in cables, Owner[c.source] \in X
          PROVE  Owner[c.target] \in X
      <3>1. <<Owner[c.source], Owner[c.target]>>[1] \in X
        BY <2>4
      <3>2. <<Owner[c.source], Owner[c.target]>>[2] \in X
        BY <2>1, <2>2, <2>4, <3>1
      <3> QED
        BY <3>2
    <2>5. ASSUME \A c \in cables : Owner[c.source] \in X => Owner[c.target] \in X,
                 NEW w \in Edges(cables), w[1] \in X
          PROVE  w[2] \in X
      <3>1. PICK c \in cables : w = <<Owner[c.source], Owner[c.target]>>
        BY <2>3
      <3> QED
        BY <2>5, <3>1
    <2> QED
      BY <2>1, <2>4, <2>5
  <1>2. ShutBeside(X, TRUE) <=> \A n \in X : DownstreamOf(n) \subseteq X
    BY DEF ShutBeside, Beside
  <1>3. (\A n \in X : DownstreamOf(n) \subseteq X) <=>
          \A c \in cables : Owner[c.source] \in X => Owner[c.target] \in X
    BY NeighboursAre
  <1> QED
    BY <1>1, <1>2, <1>3

(* The two closures are reachability, forward and back.                    *)
LEMMA ClosuresAre ==
  ASSUME InView, NEW m \in modules
  PROVE  /\ DownstreamClosure(m) = Downstream(modules, WorldWires, m)
         /\ UpstreamClosure(m) = {n \in modules : m \in DownstreamClosure(n)}
  <1>1. \A n \in modules :
          /\ n \in DownstreamClosure(n) /\ DownstreamClosure(n) \subseteq modules
          /\ ShutBeside(DownstreamClosure(n), TRUE)
          /\ \A X : n \in X /\ ShutBeside(X, TRUE) => DownstreamClosure(n) \subseteq X
    BY SearchFinds DEF DownstreamClosure
  <1>2. /\ m \in UpstreamClosure(m) /\ UpstreamClosure(m) \subseteq modules
        /\ ShutBeside(UpstreamClosure(m), FALSE)
        /\ \A X : m \in X /\ ShutBeside(X, FALSE) => UpstreamClosure(m) \subseteq X
    BY SearchFinds DEF UpstreamClosure
  <1> DEFINE back == {n \in modules : m \in DownstreamClosure(n)}
  <1>3. DownstreamClosure(m) = Downstream(modules, WorldWires, m)
    <2>1. DownstreamClosure(m) \subseteq Downstream(modules, WorldWires, m)
      <3> SUFFICES ASSUME NEW n \in DownstreamClosure(m), NEW X \in SUBSET modules,
                          m \in X, ClosedUnder(WorldWires, X)
                   PROVE  n \in X
        BY <1>1 DEF Downstream
      <3> QED
        BY <1>1, ShutIsClosed
    <2>2. Downstream(modules, WorldWires, m) \subseteq DownstreamClosure(m)
      <3>1. ClosedUnder(WorldWires, DownstreamClosure(m))
        BY <1>1, ShutIsClosed
      <3> QED
        BY <1>1, <3>1 DEF Downstream
    <2> QED
      BY <2>1, <2>2
  <1>4. UpstreamClosure(m) \subseteq back
    <2>1. ASSUME NEW n \in back, NEW k \in Beside(n, FALSE) PROVE k \in back
      <3>1. k \in modules /\ n \in DownstreamOf(k)
        BY NeighboursAre DEF Beside
      <3>2. n \in DownstreamClosure(k)
        BY <1>1, <3>1 DEF ShutBeside, Beside
      <3>3. DownstreamClosure(n) \subseteq DownstreamClosure(k)
        BY <1>1, <3>1, <3>2
      <3> QED
        BY <3>1, <3>3
    <2>2. m \in back
      BY <1>1
    <2> HIDE DEF back
    <2> QED
      BY <1>2, <2>1, <2>2 DEF ShutBeside
  <1>5. ASSUME NEW n \in back PROVE n \in UpstreamClosure(m)
    <2> SUFFICES ASSUME n \notin UpstreamClosure(m) PROVE FALSE
      OBVIOUS
    <2> DEFINE X == modules \ UpstreamClosure(m)
    <2>1. ASSUME NEW k \in X, NEW j \in Beside(k, TRUE) PROVE j \in X
      <3>1. j \in modules /\ k \in UpstreamOf(j)
        BY NeighboursAre DEF Beside
      <3>2. j \in UpstreamClosure(m) => k \in UpstreamClosure(m)
        BY <1>2, <3>1 DEF ShutBeside, Beside
      <3> QED
        BY <3>1, <3>2
    <2>2. n \in X
      OBVIOUS
    <2>3. ShutBeside(X, TRUE)
      BY <2>1 DEF ShutBeside
    <2> HIDE DEF X
    <2>4. DownstreamClosure(n) \subseteq X
      BY <1>1, <2>2, <2>3
    <2>5. m \in X
      BY <2>4
    <2> QED
      BY <1>2, <2>5 DEF X
  <1> QED
    BY <1>3, <1>4, <1>5

(* Wires between modules whose every set has one that no other of the set  *)
(* feeds make no loop.                                                     *)
LEMMA AcyclicHasNoLoop ==
  ASSUME NEW ms, NEW wires, ToSet(wires) \subseteq ms \X ms, Acyclic(ms, ToSet(wires))
  PROVE  OnALoop(ms, wires) = {}
  <1> DEFINE D(x) == Downstream(ms, wires, x)
  <1>1. /\ \A x \in ms : x \in D(x)
        /\ \A x, y, z : y \in D(x) /\ z \in D(y) => z \in D(x)
        /\ \A x, X : X \subseteq ms /\ x \in X /\ ClosedUnder(wires, X) => D(x) \subseteq X
    BY DownstreamHas
  <1>2. \A x : D(x) \subseteq ms
    BY DEF Downstream
  <1>3. ASSUME NEW x, NEW w \in ToSet(wires), w[1] \in D(x) PROVE w[2] \in D(x)
    <2>1. w \in ms \X ms
      OBVIOUS
    <2>2. \A X \in SUBSET ms : x \in X /\ ClosedUnder(wires, X) => w[2] \in X
      <3> SUFFICES ASSUME NEW X \in SUBSET ms, x \in X, ClosedUnder(wires, X) PROVE w[2] \in X
        OBVIOUS
      <3>1. w[1] \in X
        BY <1>3 DEF Downstream
      <3> QED
        BY <3>1 DEF ClosedUnder
    <2> QED
      BY <2>1, <2>2 DEF Downstream
  <1> HIDE DEF D
  <1> SUFFICES ASSUME NEW m \in ms, NEW n \in D(m), n # m, m \in D(n) PROVE FALSE
    BY <1>2 DEF OnALoop, D
  <1> DEFINE S == {x \in ms : x \in D(m) /\ m \in D(x)}
  <1>4. m \in S /\ n \in S /\ S \subseteq ms
    BY <1>1, <1>2
  <1>5. PICK x \in S : \A y \in S \ {x} : <<y, x>> \notin ToSet(wires)
    BY <1>4 DEF Acyclic, SourceIn
  <1>6. PICK y \in S : y # x
    BY <1>4
  <1>7. x \in D(y) /\ x \in ms /\ y \in ms
    BY <1>1, <1>5, <1>6
  <1> DEFINE X == D(y) \ {x}
  <1>8. ASSUME NEW w \in ToSet(wires), w[1] \in X PROVE w[2] \in X
    <2>1. w[1] \in D(y) /\ w[1] # x /\ w[2] \in D(y)
      BY <1>3, <1>8
    <2>2. w[2] # x
      <3> SUFFICES ASSUME w[2] = x PROVE FALSE
        OBVIOUS
      <3>1. w \in ms \X ms
        OBVIOUS
      <3>2. w = <<w[1], x>> /\ w[1] \in ms
        BY <3>1
      <3>3. x \in D(w[1])
        <4>1. w[1] \in D(w[1])
          BY <1>1, <3>2
        <4> QED
          BY <1>3, <4>1
      <3>4. m \in D(w[1])
        BY <1>1, <1>5, <3>3
      <3>5. w[1] \in D(m)
        BY <1>1, <1>6, <2>1
      <3>6. w[1] \in S \ {x}
        BY <2>1, <3>2, <3>4, <3>5
      <3> QED
        BY <1>5, <3>2, <3>6
    <2> QED
      BY <2>1, <2>2
  <1>9. D(y) \subseteq X
    <2>1. X \subseteq ms /\ y \in X
      BY <1>1, <1>2, <1>6, <1>7
    <2>2. ClosedUnder(wires, X)
      BY <1>8 DEF ClosedUnder
    <2> HIDE DEF X
    <2> QED
      BY <1>1, <2>1, <2>2
  <1> QED
    BY <1>7, <1>9

(* The modules of the view can be put in order: none lies on a loop with   *)
(* another.                                                                *)
LEMMA OrderExists ==
  ASSUME InView, modules \subseteq Nat
  PROVE  /\ Ticks(TRUE, modules, WorldWires)
         /\ OnALoop(modules, WorldWires) = {}
  <1>1. Acyclic(modules, Edges(cables))
    BY DEF InView, GraphInv, Legal
  <1>2. WorldWires \in Seq(modules \X modules) /\ ToSet(WorldWires) = Edges(cables)
    BY WorldWiresAre
  <1>3. ToSet(WorldWires) \subseteq modules \X modules
    BY <1>2 DEF ToSet
  <1>4. OnALoop(modules, WorldWires) = {}
    BY <1>1, <1>2, <1>3, AcyclicHasNoLoop
  <1>5. OrdersFound(modules, WorldWires)
    BY <1>2, ViewIs, BothOrdersFound
  <1> QED
    BY <1>4, <1>5 DEF OrdersFound

(* The view names no cycles but modules patched into themselves.           *)
LEMMA CyclesAre ==
  ASSUME InView, modules \subseteq Nat
  PROVE  Cycles = {{m} : m \in {n \in modules : \E c \in cables : Ends(c) = {n}}}
  <1> DEFINE onWay(m) == {n \in UpstreamClosure(m) : n \in DownstreamClosure(m)}
             self == {n \in modules : \E c \in cables : Ends(c) = {n}}
             named == {n \in modules : onWay(n) # {n} \/ n \in DownstreamOf(n)}
  <1>1. ASSUME NEW m \in modules PROVE onWay(m) = {m}
    <2>1. DownstreamClosure(m) = Downstream(modules, WorldWires, m)
          /\ UpstreamClosure(m) = {n \in modules : m \in DownstreamClosure(n)}
      BY ClosuresAre
    <2>2. m \in onWay(m)
      <3>1. m \in DownstreamClosure(m)
        BY SearchFinds DEF DownstreamClosure
      <3> QED
        BY <2>1, <3>1
    <2>3. ASSUME NEW n \in onWay(m) PROVE n = m
      <3>1. n \in modules /\ m \in DownstreamClosure(n) /\ n \in DownstreamClosure(m)
        BY <2>1
      <3>2. DownstreamClosure(n) = Downstream(modules, WorldWires, n)
        BY <3>1, ClosuresAre
      <3>3. m \notin OnALoop(modules, WorldWires)
        BY OrderExists
      <3> QED
        BY <2>1, <3>1, <3>2, <3>3 DEF OnALoop
    <2> HIDE DEF onWay
    <2> QED
      BY <2>2, <2>3
  <1>2. \A n \in modules : n \in DownstreamOf(n) <=> \E c \in cables : Ends(c) = {n}
    <2> SUFFICES ASSUME NEW n \in modules
                 PROVE  n \in DownstreamOf(n) <=> \E c \in cables : Ends(c) = {n}
      OBVIOUS
    <2>1. n \in DownstreamOf(n) <=> \E c \in cables : Owner[c.source] = n /\ Owner[c.target] = n
      BY NeighboursAre
    <2>2. \A c \in cables : Ends(c) = {n} <=> Owner[c.source] = n /\ Owner[c.target] = n
      BY DEF Ends
    <2> QED
      BY <2>1, <2>2
  <1>3. Cycles = {onWay(m) : m \in named}
    BY ViewIs DEF Cycles
  <1> HIDE DEF onWay
  <1>4. named = self
    BY <1>1, <1>2
  <1>5. self \subseteq modules
    OBVIOUS
  <1> HIDE DEF self, named
  <1>6. Cycles = {{m} : m \in self}
    BY <1>1, <1>3, <1>4, <1>5
  <1> QED
    BY <1>6 DEF self

(* Cables told apart can be put in the order in which they are shown.      *)
LEMMA AsShownIsStrict ==
  ASSUME NEW cs, cs \subseteq Cable, EntitiesApart(cs)
  PROVE  StrictOn(AsShown(cs), cs)
  <1>1. \A c \in cs : /\ c.id \in Nat /\ c.ordinal \in Nat
                      /\ c.source \in Nat /\ c.target \in Nat
    BY JacksAssumption DEF JacksAssumption, Cable
  <1>2. \A c, d \in cs : <<c, d>> \in AsShown(cs) <=> ShownBefore(c, d)
    BY DEF AsShown
  <1>3. \A c \in cs : ~ShownBefore(c, c)
    BY <1>1 DEF ShownBefore, OlderThan
  <1>4. \A c, d, e \in cs : ShownBefore(c, d) /\ ShownBefore(d, e) => ShownBefore(c, e)
    <2> SUFFICES ASSUME NEW c \in cs, NEW d \in cs, NEW e \in cs,
                        ShownBefore(c, d), ShownBefore(d, e)
                 PROVE  ShownBefore(c, e)
      OBVIOUS
    <2>1. /\ {c.id, d.id, e.id, c.ordinal, d.ordinal, e.ordinal} \subseteq Nat
          /\ {c.source, d.source, e.source, c.target, d.target, e.target} \subseteq Nat
      BY <1>1
    <2> QED
      BY <2>1, SMTT(30) DEF ShownBefore, OlderThan
  <1>5. \A c, d \in cs : c = d \/ ShownBefore(c, d) \/ ShownBefore(d, c)
    <2> SUFFICES ASSUME NEW c \in cs, NEW d \in cs, c.id # d.id
                 PROVE  ShownBefore(c, d) \/ ShownBefore(d, c)
      BY DEF EntitiesApart
    <2> QED
      BY <1>1, SMTT(30) DEF ShownBefore, OlderThan
  <1> QED
    BY <1>2, <1>3, <1>4, <1>5 DEF StrictOn

(* What is shown of the edges of some cables are those cables, in order.   *)
LEMMA ShownIs ==
  ASSUME InView, NEW cs, cs \subseteq cables
  PROVE  /\ Shown({EdgeOf(c) : c \in cs}) = InOrder(cs, AsShown(cs))
         /\ ToSet(Shown({EdgeOf(c) : c \in cs})) = cs
         /\ IsFiniteSet(cs) /\ StrictOn(AsShown(cs), cs)
  <1>1. {CableWith(e.cable) : e \in {EdgeOf(c) : c \in cs}} = cs
    <2>1. \A c \in cs : CableWith(EdgeOf(c).cable) = c
      BY ViewIs
    <2> QED
      BY <2>1
  <1>2. Shown({EdgeOf(c) : c \in cs}) = InOrder(cs, AsShown(cs))
    BY <1>1 DEF Shown
  <1>3. IsFiniteSet(cs) /\ cs \subseteq Cable /\ EntitiesApart(cs)
    BY FS_Subset DEF InView, GraphInv, IndexInv, EntitiesApart
  <1>4. StrictOn(AsShown(cs), cs)
    BY <1>3, AsShownIsStrict
  <1> DEFINE a == InOrder(cs, AsShown(cs))
             N == Cardinality(cs)
  <1>5. /\ DOMAIN a = 1 .. N /\ \A i \in 1 .. N : a[i] \in cs
        /\ \A c \in cs : Place(cs, AsShown(cs), c) + 1 \in 1 .. N
                         /\ a[Place(cs, AsShown(cs), c) + 1] = c
    BY <1>3, <1>4, InOrderLists
  <1> HIDE DEF a, N
  <1>6. ToSet(a) = cs
    BY <1>5 DEF ToSet
  <1> QED
    BY <1>2, <1>3, <1>4, <1>6 DEF a

(* Incoming and outgoing cables together are the incident ones.            *)
LEMMA RostersAre ==
  ASSUME InView
  PROVE  /\ ToSet(CableRoster) = cables /\ CableRoster = InOrder(cables, AsShown(cables))
         /\ \A m : ToSet(IncomingCables(m)) \cup ToSet(OutgoingCables(m)) = Incident(m)
         /\ \A m : (Incoming(m) = {} /\ Outgoing(m) = {}) <=> Incident(m) = {}
  <1>1. GraphEdges = {EdgeOf(c) : c \in cables}
    BY ViewIs
  <1>2. ToSet(CableRoster) = cables /\ CableRoster = InOrder(cables, AsShown(cables))
    BY <1>1, ShownIs DEF CableRoster
  <1>3. ASSUME NEW m
        PROVE  /\ ToSet(IncomingCables(m)) \cup ToSet(OutgoingCables(m)) = Incident(m)
               /\ (Incoming(m) = {} /\ Outgoing(m) = {}) <=> Incident(m) = {}
    <2> DEFINE in == {c \in cables : Owner[c.target] = m}
               out == {c \in cables : Owner[c.source] = m}
    <2>1. Incoming(m) = {EdgeOf(c) : c \in in}
      BY <1>1, ViewIs DEF Incoming
    <2>2. Outgoing(m) = {EdgeOf(c) : c \in out}
      BY <1>1, ViewIs DEF Outgoing
    <2>3. in \cup out = Incident(m)
      BY DEF Incident
    <2>4. in \subseteq cables /\ out \subseteq cables
      OBVIOUS
    <2> HIDE DEF in, out
    <2>5. ToSet(IncomingCables(m)) = in
      BY <2>1, <2>4, ShownIs DEF IncomingCables
    <2>6. ToSet(OutgoingCables(m)) = out
      BY <2>2, <2>4, ShownIs DEF OutgoingCables
    <2> QED
      BY <2>1, <2>2, <2>3, <2>5, <2>6
  <1> QED
    BY <1>2, <1>3

(* Places follow the order, both ways.                                     *)
LEMMA PlacesFollow ==
  ASSUME NEW S, IsFiniteSet(S), NEW R, StrictOn(R, S), NEW x \in S, NEW y \in S
  PROVE  Place(S, R, x) < Place(S, R, y) <=> <<x, y>> \in R
  <1>1. Place(S, R, x) \in Nat /\ Place(S, R, y) \in Nat
    BY PlaceBounds
  <1>2. <<x, y>> \in R => Place(S, R, x) < Place(S, R, y)
    BY PlaceRises
  <1>3. <<y, x>> \in R => Place(S, R, y) < Place(S, R, x)
    BY PlaceRises
  <1>4. x = y \/ <<x, y>> \in R \/ <<y, x>> \in R
    BY DEF StrictOn
  <1> QED
    BY <1>1, <1>2, <1>3, <1>4

(* The k-th cable shown between two ports is occurrence k of unpatch().    *)
LEMMA OccurrencesAre ==
  ASSUME InView, NEW i \in DOMAIN CableRoster
  PROVE  LET alike == Between(CableRoster[i].source, CableRoster[i].target) IN
         Cardinality({j \in 1 .. i - 1 : CableRoster[j] \in alike})
           = Cardinality({d \in alike : OlderThan(d, CableRoster[i])})
  <1> DEFINE a == CableRoster
             N == Cardinality(cables)
             R == AsShown(cables)
             c == a[i]
             alike == Between(c.source, c.target)
             J == {j \in 1 .. i - 1 : a[j] \in alike}
             D == {d \in alike : OlderThan(d, c)}
             f == [j \in J |-> a[j]]
  <1>1. IsFiniteSet(cables) /\ StrictOn(R, cables) /\ a = InOrder(cables, R)
    BY ShownIs, RostersAre
  <1>2. /\ N \in Nat /\ DOMAIN a = 1 .. N
        /\ \A j \in 1 .. N : a[j] \in cables /\ Place(cables, R, a[j]) = j - 1
        /\ \A d \in cables : Place(cables, R, d) + 1 \in 1 .. N
                             /\ a[Place(cables, R, d) + 1] = d
    BY <1>1, InOrderLists
  <1>3. i \in 1 .. N
    BY <1>2
  <1>4. \A d \in alike : d \in cables /\ d.source = c.source /\ d.target = c.target
    BY DEF Between
  <1>5. c \in cables /\ Place(cables, R, c) = i - 1
    BY <1>2, <1>3
  <1>6. \A d \in cables : <<d, c>> \in R <=> ShownBefore(d, c)
    BY <1>5 DEF AsShown
  <1>7. c.source \in Nat /\ c.target \in Nat
    BY <1>5, JacksAssumption DEF InView, GraphInv, IndexInv, Cable, JacksAssumption
  <1> HIDE DEF a, N, R, c, alike
  <1>8. \A d \in alike : <<d, c>> \in R <=> OlderThan(d, c)
    BY <1>4, <1>6, <1>7 DEF ShownBefore
  <1>9. \A j \in J : j \in 1 .. N /\ a[j] \in D
    <2> TAKE j \in J
    <2>1. j \in 1 .. N /\ j - 1 < i - 1 /\ a[j] \in alike
      BY <1>2, <1>3
    <2>2. Place(cables, R, a[j]) < Place(cables, R, c)
      BY <1>2, <1>5, <2>1
    <2>3. <<a[j], c>> \in R
      BY <1>1, <1>4, <1>5, <2>1, <2>2, PlacesFollow
    <2> QED
      BY <1>8, <2>1, <2>3
  <1>10. ASSUME NEW d \in D PROVE \E j \in J : a[j] = d
    <2>1. d \in alike /\ d \in cables /\ <<d, c>> \in R
      BY <1>4, <1>8
    <2>2. Place(cables, R, d) < Place(cables, R, c) /\ Place(cables, R, d) \in Nat
      BY <1>1, <1>5, <2>1, PlacesFollow, PlaceBounds
    <2> DEFINE j == Place(cables, R, d) + 1
    <2>3. j \in 1 .. N /\ a[j] = d
      BY <1>2, <2>1
    <2>4. j \in 1 .. i - 1
      BY <1>3, <1>5, <2>2
    <2> QED
      BY <2>1, <2>3, <2>4
  <1>11. IsFiniteSet(J)
    <2>1. J \subseteq 1 .. i - 1 /\ i - 1 \in Int
      BY <1>2, <1>3
    <2> QED
      BY <2>1, FS_Interval, FS_Subset
  <1>12. f \in [J -> D]
    BY <1>9
  <1>13. \A j, k \in J : f[j] = f[k] => j = k
    <2> SUFFICES ASSUME NEW j \in J, NEW k \in J, a[j] = a[k] PROVE j = k
      OBVIOUS
    <2>1. j \in 1 .. N /\ k \in 1 .. N
      BY <1>9
    <2>2. j - 1 = k - 1
      BY <1>2, <2>1
    <2> QED
      BY <2>1, <2>2, <1>2
  <1>14. \A d \in D : \E j \in J : f[j] = d
    BY <1>10
  <1>15. Cardinality(J) = Cardinality(D)
    <2> HIDE DEF f, J, D
    <2>1. f \in Surjection(J, D) /\ f \in Injection(J, D)
      BY <1>12, <1>13, <1>14 DEF Surjection, Injection, IsInjective
    <2> QED
      BY <1>11, <2>1, FS_Surjection
  <1> QED
    BY <1>15 DEF alike, c, a

(* Ports the view lists as dangling have no cable in the index.            *)
LEMMA DanglingAre ==
  ASSUME InView
  PROVE  DanglingPorts =
           {p \in Ports : Present(p) /\ (IF Direction[p] = "Output" THEN by_source[p]
                                                                    ELSE by_target[p]) = {}}
  <1>1. {CableWith(e.cable) : e \in GraphEdges} = cables
    <2>1. \A c \in cables : CableWith(EdgeOf(c).cable) = c
      BY ViewIs
    <2> QED
      BY <2>1, ViewIs
  <1>2. DanglingPorts =
          {p \in PortsIn(modules) :
             p \notin (IF Direction[p] = "Output" THEN {c.source : c \in cables}
                                                  ELSE {c.target : c \in cables})}
    BY <1>1, ViewIs DEF DanglingPorts
  <1>3. \A p \in Ports : /\ by_source[p] = {} <=> p \notin {c.source : c \in cables}
                         /\ by_target[p] = {} <=> p \notin {c.target : c \in cables}
    BY DEF InView, GraphInv, IndexInv, SourceIndex, TargetIndex, EntityOf, FanIn
  <1> QED
    BY <1>2, <1>3 DEF PortsIn, Present

(* A view that follows a legal world answers for it.                       *)
LEMMA ViewAnswers ==
  ASSUME InView
  PROVE  AnswersAgree
  <1>1. modules \subseteq Modules /\ modules \subseteq Nat
    BY NamesAssumption DEF InView, GraphInv, NamesAssumption
  <1>2. ASSUME NEW m \in modules
        PROVE  /\ DownstreamClosure(m) = Downstream(modules, WorldWires, m)
               /\ UpstreamClosure(m) = {n \in modules : m \in DownstreamClosure(n)}
               /\ UpstreamOf(m) = {n \in modules : m \in DownstreamOf(n)}
               /\ m \in DanglingModules <=> Incident(m) = {}
               /\ ToSet(IncomingCables(m)) \cup ToSet(OutgoingCables(m)) = Incident(m)
    <2>1. UpstreamOf(m) \subseteq modules
      BY NeighboursAre DEF Beside
    <2>2. UpstreamOf(m) = {n \in modules : m \in DownstreamOf(n)}
      BY <2>1, NeighboursAre
    <2>3. m \in DanglingModules <=> Incident(m) = {}
      BY ViewIs, RostersAre DEF DanglingModules
    <2> QED
      BY <2>2, <2>3, ClosuresAre, RostersAre
  <1>3. ASSUME NEW e \in JackPairs, Present(e[1]), Present(e[2])
        PROVE  e[2] \in CompatibleInputsFor(e[1]) <=> Accepts("none", Kind[e[1]], Kind[e[2]])
    <2>1. e[1] \in Ports /\ e[2] \in Ports /\ Direction[e[2]] = "Input"
      BY DEF JackPairs
    <2>2. e[2] \in CompatibleInputsFor(e[1]) <=> Kind[e[2]] = Kind[e[1]]
      BY <1>3, <2>1, ViewIs DEF CompatibleInputsFor, PortsIn, Present
    <2>3. Accepts("none", Kind[e[1]], Kind[e[2]]) <=> Kind[e[2]] = Kind[e[1]]
      BY DEF Accepts, SameKind
    <2> QED
      BY <2>2, <2>3
  <1>4. ToSet(ModuleRoster) = modules
    BY <1>1, ViewIs, AscendingIs DEF ModuleRoster
  <1>5. \A m \in Modules : ModuleByName(m) = {m} \cap modules
    BY ViewIs DEF ModuleByName
  <1>6. \A i \in DOMAIN CableRoster :
          LET alike == Between(CableRoster[i].source, CableRoster[i].target) IN
          Cardinality({j \in 1 .. i - 1 : CableRoster[j] \in alike})
            = Cardinality({d \in alike : OlderThan(d, CableRoster[i])})
    BY OccurrencesAre
  <1> QED
    BY <1>1, <1>2, <1>3, <1>4, <1>5, <1>6, RostersAre, DanglingAre, CyclesAre, OrderExists
    DEF AnswersAgree

(* Whatever was edited, loaded or removed, and however many messages one   *)
(* Update reads, what the queries of the graph view answer is what the     *)
(* cables of the world say, and the view can be put in order.              *)
THEOREM ViewAnswersForWorld == GraphSpec => []AnswersAgree
  <1>1. GraphInit => GraphInv
    BY LegalAtFirst DEF GraphInit
  <1>2. GraphInv /\ [GraphNext]_<<vars, viewVars>> => GraphInv'
    <2>1. [GraphNext]_<<vars, viewVars>> => [Next]_vars
      BY DEF GraphNext, FacadeEdit, FacadeLoad, RawEdit, RawLoad, Update, Edit, NewLife, Next
    <2> QED
      BY <2>1, LegalInEveryStep
  <1>3. GraphInv /\ GraphFollows => AnswersAgree
    <2>1. CASE Settled
      BY <2>1, ViewAnswers DEF InView
    <2>2. CASE ~Settled
      BY <2>2 DEF AnswersAgree
    <2> QED
      BY <2>1, <2>2
  <1> QED
    BY <1>1, <1>2, <1>3, ViewFollowsWorld, PTL DEF GraphSpec

-----------------------------------------------------------------------------
(* Which modules the error names: Tarjan's search of those that are left.  *)
(* A loop over given steps: its course exists.                             *)
IsCourse(f, steps, s, count) ==
  f = [i \in 0 .. count |-> IF i = 0 THEN s ELSE steps[i][f[i - 1]]]

LEMMA CourseExists ==
  ASSUME NEW steps, NEW s, NEW count \in Nat
  PROVE  \E f : IsCourse(f, steps, s, count)
  <1> DEFINE failing == {k \in Nat : ~ \E f : IsCourse(f, steps, s, k)}
  <1> USE DEF IsCourse
  <1> SUFFICES ASSUME failing # {} PROVE FALSE
    OBVIOUS
  <1>1. PICK k \in failing : \A j \in failing : k <= j
    <2>1. failing \subseteq Nat
      OBVIOUS
    <2> HIDE DEF failing
    <2> QED
      BY <2>1, LeastNatural
  <1>2. CASE k = 0
    <2>1. IsCourse([i \in 0 .. 0 |-> s], steps, s, 0)
      OBVIOUS
    <2> QED
      BY <1>1, <1>2, <2>1
  <1>3. CASE k # 0
    <2>0. k \in Nat
      BY <1>1
    <2>1. k - 1 \in Nat /\ k - 1 \notin failing
      <3> HIDE DEF failing
      <3> QED
        BY <1>1, <1>3, <2>0
    <2>2. PICK g : IsCourse(g, steps, s, k - 1)
      BY <2>1
    <2> DEFINE f == [i \in 0 .. k |-> IF i = k THEN steps[k][g[k - 1]] ELSE g[i]]
    <2>3. \A i \in 0 .. k - 1 : g[i] = IF i = 0 THEN s ELSE steps[i][g[i - 1]]
      <3>1. \A i \in 0 .. k - 1 :
              [j \in 0 .. k - 1 |-> IF j = 0 THEN s ELSE steps[j][g[j - 1]]][i]
                = IF i = 0 THEN s ELSE steps[i][g[i - 1]]
        OBVIOUS
      <3> QED
        BY <2>2, <3>1, Zenon
    <2>4. \A i \in 0 .. k : f[i] = IF i = 0 THEN s ELSE steps[i][f[i - 1]]
      <3> SUFFICES ASSUME NEW i \in 0 .. k
                   PROVE  f[i] = IF i = 0 THEN s ELSE steps[i][f[i - 1]]
        OBVIOUS
      <3>1. CASE i = k
        <4>1. f[k] = steps[k][g[k - 1]] /\ f[k - 1] = g[k - 1]
          BY <2>1, <1>3
        <4> QED
          BY <3>1, <1>3, <4>1
      <3>2. CASE i # k /\ i # 0
        <4>1. i \in 0 .. k - 1 /\ i - 1 \in 0 .. k - 1
          BY <2>1, <3>2
        <4>2. f[i] = g[i] /\ f[i - 1] = g[i - 1]
          BY <4>1, <2>1
        <4> QED
          BY <2>3, <3>2, <4>1, <4>2
      <3>3. CASE i # k /\ i = 0
        BY <2>1, <2>3, <3>3
      <3> QED
        BY <3>1, <3>2, <3>3
    <2>5. IsCourse(f, steps, s, k)
      BY <2>4
    <2> QED
      BY <1>1, <2>5
  <1> QED
    BY <1>2, <1>3

(* What a loop makes of a search is the end of its course.                 *)
GoesThrough(f, steps, s, count) ==
  /\ f[0] = s /\ \A i \in 1 .. count : f[i] = steps[i][f[i - 1]]
  /\ Through(steps, s) = f[count]

LEMMA ThroughAll ==
  ASSUME NEW steps, NEW s, NEW count \in Nat, Len(steps) = count
  PROVE  \E f : GoesThrough(f, steps, s, count)
  <1> DEFINE R == CHOOSE f : IsCourse(f, steps, s, Len(steps))
  <1>1. Through(steps, s) = R[Len(steps)]
    BY Zenon DEF Through, IsCourse
  <1>2. R = [i \in 0 .. count |-> IF i = 0 THEN s ELSE steps[i][R[i - 1]]]
    <2>1. \E f : IsCourse(f, steps, s, Len(steps))
      BY CourseExists
    <2>2. IsCourse(R, steps, s, Len(steps))
      BY <2>1, Zenon
    <2> QED
      BY <2>2, Zenon DEF IsCourse
  <1> HIDE DEF R
  <1>3. \A i \in 0 .. count : R[i] = IF i = 0 THEN s ELSE steps[i][R[i - 1]]
    <2>1. \A i \in 0 .. count :
            [j \in 0 .. count |-> IF j = 0 THEN s ELSE steps[j][R[j - 1]]][i]
              = IF i = 0 THEN s ELSE steps[i][R[i - 1]]
      OBVIOUS
    <2> QED
      BY <1>2, <2>1, Zenon
  <1>4. R[0] = s /\ \A i \in 1 .. count : R[i] = steps[i][R[i - 1]]
    BY <1>3
  <1> QED
    BY <1>1, <1>4 DEF GoesThrough

(* The same of the calls, a depth after the other.                         *)
Nested(deps, calls, k) ==
  [v \in DOMAIN deps |-> [s \in Searches(DOMAIN deps) |->
     IF k = 0 THEN s ELSE Visited(calls, deps, v, s)]]
AreCalls(f, deps, count) == f = [k \in 0 .. count |-> Nested(deps, f[k - 1], k)]

LEMMA CallsExist ==
  ASSUME NEW deps, NEW count \in Nat
  PROVE  \E f : AreCalls(f, deps, count)
  <1> DEFINE failing == {k \in Nat : ~ \E f : AreCalls(f, deps, k)}
  <1> SUFFICES ASSUME failing # {} PROVE FALSE
    OBVIOUS
  <1>1. PICK k \in failing : \A j \in failing : k <= j
    <2>1. failing \subseteq Nat
      OBVIOUS
    <2> HIDE DEF failing
    <2> QED
      BY <2>1, LeastNatural
  <1>0. \A a, b : Nested(deps, a, 0) = Nested(deps, b, 0)
    BY DEF Nested
  <1>2. CASE k = 0
    <2> DEFINE f == [i \in 0 .. 0 |-> Nested(deps, {}, 0)]
    <2>1. \A i \in 0 .. 0 : f[i] = Nested(deps, f[i - 1], i)
      <3> TAKE i \in 0 .. 0
      <3>1. i = 0
        OBVIOUS
      <3>2. f[0] = Nested(deps, {}, 0)
        OBVIOUS
      <3> HIDE DEF f
      <3> QED
        BY <1>0, <3>1, <3>2, Zenon
    <2>2. f = [i \in 0 .. 0 |-> Nested(deps, f[i - 1], i)]
      <3>1. f = [i \in 0 .. 0 |-> f[i]]
        OBVIOUS
      <3> HIDE DEF f
      <3> QED
        BY <2>1, <3>1
    <2>3. AreCalls(f, deps, 0)
      BY <2>2, Zenon DEF AreCalls
    <2> QED
      BY <1>1, <1>2, <2>3
  <1>3. CASE k # 0
    <2>0. k \in Nat
      BY <1>1
    <2>1. k - 1 \in Nat /\ k - 1 \notin failing
      <3> HIDE DEF failing
      <3> QED
        BY <1>1, <1>3, <2>0
    <2>2. PICK g : AreCalls(g, deps, k - 1)
      BY <2>1
    <2> DEFINE f == [i \in 0 .. k |-> IF i = k THEN Nested(deps, g[k - 1], k) ELSE g[i]]
    <2>3. \A i \in 0 .. k - 1 : g[i] = Nested(deps, g[i - 1], i)
      <3>1. \A i \in 0 .. k - 1 : [j \in 0 .. k - 1 |-> Nested(deps, g[j - 1], j)][i]
                                    = Nested(deps, g[i - 1], i)
        OBVIOUS
      <3> QED
        BY <2>2, <3>1, Zenon DEF AreCalls
    <2>4. \A i \in 0 .. k : f[i] = Nested(deps, f[i - 1], i)
      <3> SUFFICES ASSUME NEW i \in 0 .. k PROVE f[i] = Nested(deps, f[i - 1], i)
        OBVIOUS
      <3>1. CASE i = k
        <4>1. f[k] = Nested(deps, g[k - 1], k) /\ f[k - 1] = g[k - 1]
          BY <2>1, <1>3
        <4> QED
          BY <3>1, <4>1
      <3>2. CASE i # k /\ i # 0
        <4>1. i \in 0 .. k - 1 /\ i - 1 \in 0 .. k - 1
          BY <2>1, <3>2
        <4>2. f[i] = g[i] /\ f[i - 1] = g[i - 1]
          BY <4>1, <2>1
        <4> QED
          BY <2>3, <4>1, <4>2
      <3>3. CASE i # k /\ i = 0
        <4>1. f[0] = g[0] /\ 0 \in 0 .. k - 1
          BY <2>1, <3>3
        <4>2. g[0] = Nested(deps, g[0 - 1], 0)
          BY <2>3, <4>1
        <4> HIDE DEF f
        <4> QED
          BY <1>0, <3>3, <4>1, <4>2
      <3> QED
        BY <3>1, <3>2, <3>3
    <2>5. f = [i \in 0 .. k |-> Nested(deps, f[i - 1], i)]
      <3>1. f = [i \in 0 .. k |-> f[i]]
        OBVIOUS
      <3> HIDE DEF f
      <3> QED
        BY <2>4, <3>1
    <2>6. AreCalls(f, deps, k)
      BY <2>5, Zenon DEF AreCalls
    <2> QED
      BY <1>1, <2>6
  <1> QED
    BY <1>2, <1>3

(* A call within depth k does what its body does with calls within k - 1.  *)
LEMMA CallsNest ==
  ASSUME NEW deps, IsFiniteSet(DOMAIN deps)
  PROVE  /\ Cardinality(DOMAIN deps) \in Nat
         /\ \A k \in 1 .. Cardinality(DOMAIN deps) : \A v \in DOMAIN deps :
              \A s \in Searches(DOMAIN deps) :
                Visiting(deps)[k][v][s] = Visited(Visiting(deps)[k - 1], deps, v, s)
  <1> DEFINE N == Cardinality(DOMAIN deps)
             R == Visiting(deps)
  <1>1. N \in Nat
    BY FS_CardinalityType
  <1>2. R = [k \in 0 .. N |-> Nested(deps, R[k - 1], k)]
    <2>1. \E f : AreCalls(f, deps, N)
      BY <1>1, CallsExist
    <2>2. R = CHOOSE f : AreCalls(f, deps, N)
      BY Zenon DEF Visiting, AreCalls, Nested
    <2>3. AreCalls(R, deps, N)
      BY <2>1, <2>2, Zenon
    <2> QED
      BY <2>3, Zenon DEF AreCalls
  <1> HIDE DEF R
  <1>3. \A k \in 0 .. N : R[k] = Nested(deps, R[k - 1], k)
    <2>1. \A k \in 0 .. N : [j \in 0 .. N |-> Nested(deps, R[j - 1], j)][k] = Nested(deps, R[k - 1], k)
      OBVIOUS
    <2> QED
      BY <1>2, <2>1, Zenon
  <1>4. ASSUME NEW k \in 1 .. N, NEW v \in DOMAIN deps, NEW s \in Searches(DOMAIN deps)
        PROVE  R[k][v][s] = Visited(R[k - 1], deps, v, s)
    <2>1. R[k] = Nested(deps, R[k - 1], k) /\ k # 0
      BY <1>1, <1>3
    <2>2. \A calls : Nested(deps, calls, k)[v][s] = Visited(calls, deps, v, s)
      BY <2>1 DEF Nested
    <2> QED
      BY <2>1, <2>2
  <1> QED
    BY <1>1, <1>4 DEF R

(* Lists of whom each module feeds, and what each reaches along them: all  *)
(* that lies in every set with the module and with whatever that feeds.    *)
Reaches(deps, reach) ==
  /\ IsFiniteSet(DOMAIN deps)
  /\ deps \in [DOMAIN deps -> Seq(DOMAIN deps)]
  /\ reach \in [DOMAIN deps -> SUBSET DOMAIN deps]
  /\ \A m \in DOMAIN deps : m \in reach[m] /\ ToSet(deps[m]) \subseteq reach[m]
  /\ \A m, n \in DOMAIN deps : n \in reach[m] => reach[n] \subseteq reach[m]
  /\ \A m \in DOMAIN deps : \A X \in SUBSET DOMAIN deps :
       m \in X /\ (\A n \in X : ToSet(deps[n]) \subseteq X) => reach[m] \subseteq X

(* The modules on a loop with m, and m.                                    *)
Class(reach, m) == {n \in reach[m] : m \in reach[n]}
Gone(s) == UNION s.sccs

(* The search between two steps, where the calls that have not returned    *)
(* are those of the grey modules.  Indices are given in order.             *)
Numbered(deps, s) ==
  /\ s \in Searches(DOMAIN deps) /\ s.counter >= 1
  /\ \A m \in DOMAIN deps : s.index[m] < s.counter

(* The stack is in the order of the indices; who is lower reaches who is   *)
(* higher, and each reaches a grey one that is not above it.               *)
Stacked(reach, grey, s) ==
  /\ \A i, j \in DOMAIN s.stack : i < j => s.index[s.stack[i]] < s.index[s.stack[j]]
  /\ \A i \in DOMAIN s.stack : s.index[s.stack[i]] # 0
  /\ \A i, j \in DOMAIN s.stack : i <= j => s.stack[j] \in reach[s.stack[i]]
  /\ \A i \in DOMAIN s.stack : \E j \in 1 .. i : s.stack[j] \in grey /\ s.stack[j] \in reach[s.stack[i]]
  /\ grey \subseteq ToSet(s.stack)

(* Whoever was visited and left the stack is in a component, these are the *)
(* loops, nothing leads out of them, and only a grey module may feed one   *)
(* that was not visited.                                                   *)
Parted(deps, reach, grey, s) ==
  /\ Gone(s) = {m \in DOMAIN deps : s.index[m] # 0} \ ToSet(s.stack)
  /\ \A scc \in s.sccs : \A m \in scc : scc = Class(reach, m)
  /\ \A m \in Gone(s) : ToSet(deps[m]) \subseteq Gone(s)
  /\ \A m \in DOMAIN deps \ grey : s.index[m] # 0 => \A n \in ToSet(deps[m]) : s.index[n] # 0

SearchInv(deps, reach, grey, s) ==
  Numbered(deps, s) /\ Stacked(reach, grey, s) /\ Parted(deps, reach, grey, s)

(* What happens while a call lasts: the stack only grows above its old     *)
(* top, and what was visited keeps its numbers.                            *)
Above(s, t) ==
  /\ Len(s.stack) <= Len(t.stack) /\ \A i \in 1 .. Len(s.stack) : t.stack[i] = s.stack[i]
  /\ s.counter <= t.counter
  /\ \A m \in DOMAIN s.index :
       s.index[m] # 0 => t.index[m] = s.index[m] /\ t.low[m] = s.low[m]

(* A low number is that of a module below the old top that v reaches.      *)
FromBelow(reach, v, s, low) ==
  \E j \in 1 .. Len(s.stack) : low = s.index[s.stack[j]] /\ s.stack[j] \in reach[v]

(* No cable from place k of the stack leads further down than to low.      *)
NoLower(deps, s, low, m) ==
  \A j \in 1 .. Len(s.stack) : s.stack[j] \in ToSet(deps[m]) => low <= s.index[s.stack[j]]

(* When v may be visited, and what a visit has done when it returns.       *)
MayVisit(deps, reach, grey, v, s) ==
  /\ SearchInv(deps, reach, grey, s)
  /\ v \in DOMAIN deps /\ s.index[v] = 0 /\ \A g \in grey : v \in reach[g]
VisitDone(deps, reach, grey, v, s, t) ==
  /\ SearchInv(deps, reach, grey, t) /\ Above(s, t) /\ t.index[v] # 0
  /\ s.counter <= t.low[v] \/ FromBelow(reach, v, s, t.low[v])
  /\ \A k \in Len(s.stack) + 1 .. Len(t.stack) : NoLower(deps, s, t.low[v], t.stack[k])

(* In the loop of the visit of v, its first i dependents examined.         *)
Exploring(deps, reach, grey, v, s, i, t) ==
  /\ SearchInv(deps, reach, grey \cup {v}, t) /\ Above(s, t)
  /\ Len(s.stack) < Len(t.stack) /\ t.stack[Len(s.stack) + 1] = v
  /\ t.index[v] = s.counter /\ s.counter < t.counter
  /\ t.low[v] <= s.counter
  /\ t.low[v] < s.counter => FromBelow(reach, v, s, t.low[v])
  /\ \A k \in Len(s.stack) + 2 .. Len(t.stack) : NoLower(deps, s, t.low[v], t.stack[k])
  /\ \A a \in 1 .. i : t.index[deps[v][a]] # 0
  /\ \A a \in 1 .. i : \A j \in 1 .. Len(s.stack) :
       deps[v][a] = s.stack[j] => t.low[v] <= s.index[s.stack[j]]

(* A search by its parts.                                                  *)
IsSearch(U, s) ==
  /\ s.counter \in Nat /\ s.stack \in Seq(U) /\ s.sccs \in SUBSET SUBSET U
  /\ s.index \in [U -> Nat] /\ s.low \in [U -> Nat]
  /\ Len(s.stack) \in Nat /\ DOMAIN s.stack = 1 .. Len(s.stack)
  /\ \A i \in 1 .. Len(s.stack) : s.stack[i] \in U
  /\ ToSet(s.stack) = {s.stack[i] : i \in 1 .. Len(s.stack)}

LEMMA SearchParts ==
  ASSUME NEW U, NEW s \in Searches(U)
  PROVE  IsSearch(U, s)
  BY DEF Searches, ToSet, IsSearch

(* To begin with, v is entered.                                            *)
LEMMA EnteredExplores ==
  ASSUME NEW deps, NEW reach, NEW grey, NEW v, NEW s, Reaches(deps, reach),
         MayVisit(deps, reach, grey, v, s)
  PROVE  Exploring(deps, reach, grey, v, s, 0, Entered(v, s))
  <1> DEFINE U == DOMAIN deps
             t == Entered(v, s)
             L == Len(s.stack)
             g == grey \cup {v}
  <1>1. SearchInv(deps, reach, grey, s) /\ v \in U /\ s.index[v] = 0 /\ \A x \in grey : v \in reach[x]
    BY DEF MayVisit
  <1>2. Numbered(deps, s) /\ Stacked(reach, grey, s) /\ Parted(deps, reach, grey, s)
    BY <1>1 DEF SearchInv
  <1>3. /\ s \in Searches(U) /\ s.counter \in Nat /\ s.counter >= 1
        /\ s.stack \in Seq(U) /\ s.sccs \in SUBSET SUBSET U
        /\ s.index \in [U -> Nat] /\ s.low \in [U -> Nat]
        /\ L \in Nat /\ DOMAIN s.stack = 1 .. L /\ \A i \in 1 .. L : s.stack[i] \in U
        /\ ToSet(s.stack) = {s.stack[i] : i \in 1 .. L}
    <2>1. s \in Searches(U) /\ s.counter >= 1
      BY <1>2 DEF Numbered
    <2>2. IsSearch(U, s)
      BY <2>1, SearchParts
    <2> QED
      BY <2>1, <2>2 DEF IsSearch
  <1>4. /\ t.counter = s.counter + 1 /\ t.stack = Append(s.stack, v) /\ t.sccs = s.sccs
        /\ t.index = [s.index EXCEPT ![v] = s.counter] /\ t.low = [s.low EXCEPT ![v] = s.counter]
    BY <1>3 DEF Entered, Searches
  <1>5. t \in Searches(U)
    <2>1. /\ s.counter + 1 \in Nat /\ Append(s.stack, v) \in Seq(U)
          /\ [s.index EXCEPT ![v] = s.counter] \in [U -> Nat]
          /\ [s.low EXCEPT ![v] = s.counter] \in [U -> Nat]
      BY <1>1, <1>3
    <2> QED
      BY <1>3, <2>1, Zenon DEF Entered, Searches
  <1> HIDE DEF t
  <1>6. /\ Len(t.stack) = L + 1 /\ t.stack[L + 1] = v /\ DOMAIN t.stack = 1 .. L + 1
        /\ \A i \in 1 .. L : t.stack[i] = s.stack[i]
    BY <1>1, <1>3, <1>4
  <1>7. /\ t.index[v] = s.counter /\ t.low[v] = s.counter
        /\ \A m \in U : m # v => t.index[m] = s.index[m] /\ t.low[m] = s.low[m]
    BY <1>1, <1>3, <1>4
  <1>8. \A i \in 1 .. L : s.stack[i] # v /\ t.index[s.stack[i]] = s.index[s.stack[i]]
    BY <1>1, <1>2, <1>3, <1>7 DEF Stacked
  <1>9. ToSet(t.stack) = ToSet(s.stack) \cup {v}
    <2>1. ToSet(t.stack) = {t.stack[i] : i \in 1 .. L + 1}
      BY <1>6 DEF ToSet
    <2>2. \A i \in 1 .. L + 1 : i \in 1 .. L \/ i = L + 1
      BY <1>3
    <2>3. L + 1 \in 1 .. L + 1 /\ \A i \in 1 .. L : i \in 1 .. L + 1
      BY <1>3
    <2> QED
      BY <1>3, <1>6, <2>1, <2>2, <2>3
  <1>10. Numbered(deps, t)
    BY <1>2, <1>3, <1>4, <1>5, <1>7 DEF Numbered
  <1>11. \A i \in 1 .. L + 1 : i \in 1 .. L \/ i = L + 1
    BY <1>3
  <1>12. Stacked(reach, g, t)
    <2>1. \A i, j \in 1 .. L + 1 : i < j => t.index[t.stack[i]] < t.index[t.stack[j]]
      <3> SUFFICES ASSUME NEW i \in 1 .. L + 1, NEW j \in 1 .. L + 1, i < j
                   PROVE  t.index[t.stack[i]] < t.index[t.stack[j]]
        OBVIOUS
      <3>1. i \in 1 .. L
        BY <1>3
      <3>2. CASE j \in 1 .. L
        BY <1>2, <1>3, <1>6, <1>8, <3>1, <3>2 DEF Stacked
      <3>3. CASE j = L + 1
        <4>1. s.index[s.stack[i]] < s.counter
          BY <1>2, <1>3, <3>1 DEF Numbered
        <4> QED
          BY <1>6, <1>7, <1>8, <3>1, <3>3, <4>1
      <3> QED
        BY <1>11, <3>2, <3>3
    <2>2. \A i \in 1 .. L + 1 : t.index[t.stack[i]] # 0
      <3>1. \A i \in 1 .. L : t.index[t.stack[i]] # 0
        <4> TAKE k \in 1 .. L
        <4>1. s.index[s.stack[k]] # 0
          BY <1>2, <1>3 DEF Stacked
        <4> QED
          BY <1>6, <1>8, <4>1
      <3>2. t.index[t.stack[L + 1]] # 0
        BY <1>3, <1>6, <1>7
      <3> QED
        BY <1>11, <3>1, <3>2
    <2>3. \A i \in 1 .. L : v \in reach[s.stack[i]]
      <3> TAKE i \in 1 .. L
      <3>1. PICK j \in 1 .. i : s.stack[j] \in grey /\ s.stack[j] \in reach[s.stack[i]]
        BY <1>2, <1>3 DEF Stacked
      <3>2. j \in 1 .. L
        BY <1>3
      <3>3. s.stack[j] \in U /\ s.stack[i] \in U
        BY <1>3, <3>2
      <3> QED
        BY <1>1, <3>1, <3>3 DEF Reaches
    <2>4. \A i, j \in 1 .. L + 1 : i <= j => t.stack[j] \in reach[t.stack[i]]
      <3> SUFFICES ASSUME NEW i \in 1 .. L + 1, NEW j \in 1 .. L + 1, i <= j
                   PROVE  t.stack[j] \in reach[t.stack[i]]
        OBVIOUS
      <3>1. CASE j \in 1 .. L
        <4>1. i \in 1 .. L
          BY <1>3, <3>1
        <4> QED
          BY <1>2, <1>3, <1>6, <3>1, <4>1 DEF Stacked
      <3>2. CASE j = L + 1 /\ i \in 1 .. L
        BY <1>6, <2>3, <3>2
      <3>3. CASE j = L + 1 /\ i = L + 1
        BY <1>1, <1>6, <3>3 DEF Reaches
      <3> QED
        BY <1>11, <3>1, <3>2, <3>3
    <2>5. \A i \in 1 .. L + 1 : \E j \in 1 .. i : t.stack[j] \in g /\ t.stack[j] \in reach[t.stack[i]]
      <3> TAKE i \in 1 .. L + 1
      <3>1. CASE i \in 1 .. L
        <4>1. PICK j \in 1 .. i : s.stack[j] \in grey /\ s.stack[j] \in reach[s.stack[i]]
          BY <1>2, <1>3, <3>1 DEF Stacked
        <4>2. j \in 1 .. L
          BY <1>3, <3>1
        <4> QED
          BY <1>6, <3>1, <4>1, <4>2
      <3>2. CASE i = L + 1
        <4>1. i \in 1 .. i /\ t.stack[i] = v /\ v \in reach[v]
          BY <1>1, <1>3, <1>6, <3>2 DEF Reaches
        <4> QED
          BY <4>1
      <3> QED
        BY <1>11, <3>1, <3>2
    <2>6. g \subseteq ToSet(t.stack)
      BY <1>2, <1>9 DEF Stacked
    <2> QED
      BY <1>6, <2>1, <2>2, <2>4, <2>5, <2>6 DEF Stacked
  <1>13. Parted(deps, reach, g, t)
    <2>1. Gone(t) = Gone(s)
      BY <1>4 DEF Gone
    <2>2. {m \in U : t.index[m] # 0} = {m \in U : s.index[m] # 0} \cup {v}
      BY <1>1, <1>3, <1>7
    <2>3. Gone(t) = {m \in U : t.index[m] # 0} \ ToSet(t.stack)
      BY <1>1, <1>2, <1>9, <2>1, <2>2 DEF Parted
    <2>4. \A m \in U \ g : t.index[m] # 0 => \A n \in ToSet(deps[m]) : t.index[n] # 0
      <3> SUFFICES ASSUME NEW m \in U \ g, t.index[m] # 0, NEW n \in ToSet(deps[m])
                   PROVE  t.index[n] # 0
        OBVIOUS
      <3>1. s.index[m] # 0
        BY <1>7
      <3>2. s.index[n] # 0 /\ n \in U
        BY <1>2, <3>1 DEF Parted, Reaches
      <3> QED
        BY <1>3, <1>7, <3>2
    <2> QED
      BY <1>2, <1>4, <2>1, <2>3, <2>4 DEF Parted
  <1>14. Above(s, t)
    BY <1>1, <1>3, <1>4, <1>6, <1>7 DEF Above
  <1>15. /\ \A k \in L + 2 .. L + 1 : NoLower(deps, s, t.low[v], t.stack[k])
         /\ 1 .. 0 = {} /\ L + 2 .. Len(t.stack) = L + 2 .. L + 1
    BY <1>3, <1>6
  <1>16. SearchInv(deps, reach, g, t)
    BY <1>10, <1>12, <1>13 DEF SearchInv
  <1> HIDE DEF g
  <1>17. Len(s.stack) < Len(t.stack) /\ t.low[v] <= s.counter /\ s.counter < t.counter
         /\ ~ (t.low[v] < s.counter)
    BY <1>3, <1>4, <1>6, <1>7
  <1> QED
    BY <1>6, <1>7, <1>14, <1>15, <1>16, <1>17 DEF Exploring, g, t

(* Another low number for v touches nothing else.                          *)
LowKept(deps, reach, grey, v, u, x, t) ==
  /\ SearchInv(deps, reach, grey, t)
  /\ t.counter = u.counter /\ t.stack = u.stack /\ t.sccs = u.sccs /\ t.index = u.index
  /\ t.low[v] = x /\ \A m \in DOMAIN deps : m # v => t.low[m] = u.low[m]

LEMMA LowKeeps ==
  ASSUME NEW deps, NEW reach, NEW grey, NEW v \in DOMAIN deps, NEW u, NEW x \in Nat, NEW t,
         SearchInv(deps, reach, grey, u), t = [u EXCEPT !.low[v] = x]
  PROVE  LowKept(deps, reach, grey, v, u, x, t)
  <1>1. Numbered(deps, u) /\ Stacked(reach, grey, u) /\ Parted(deps, reach, grey, u)
    BY DEF SearchInv
  <1>2. u \in Searches(DOMAIN deps)
    BY <1>1 DEF Numbered
  <1>3. u.low \in [DOMAIN deps -> Nat]
    BY <1>2, SearchParts DEF IsSearch
  <1>4. /\ t.counter = u.counter /\ t.stack = u.stack /\ t.sccs = u.sccs /\ t.index = u.index
        /\ t.low = [u.low EXCEPT ![v] = x]
    BY <1>2 DEF Searches
  <1>5. t.low \in [DOMAIN deps -> Nat] /\ t.low[v] = x
        /\ \A m \in DOMAIN deps : m # v => t.low[m] = u.low[m]
    BY <1>3, <1>4
  <1>6. t \in Searches(DOMAIN deps)
    <2>1. [u.low EXCEPT ![v] = x] \in [DOMAIN deps -> Nat]
      BY <1>3
    <2> QED
      BY <1>2, <2>1, Zenon DEF Searches
  <1>7. Numbered(deps, t)
    BY <1>1, <1>4, <1>6 DEF Numbered
  <1>8. Stacked(reach, grey, t)
    BY <1>1, <1>4 DEF Stacked
  <1>9. Parted(deps, reach, grey, t)
    BY <1>1, <1>4 DEF Parted, Gone
  <1> QED
    BY <1>4, <1>5, <1>7, <1>8, <1>9 DEF SearchInv, LowKept

(* What the invariant says of a search, and of what lies on its stack.     *)
LEMMA SearchFacts ==
  ASSUME NEW deps, NEW reach, NEW grey, NEW s, Reaches(deps, reach),
         SearchInv(deps, reach, grey, s)
  PROVE  /\ IsSearch(DOMAIN deps, s) /\ s \in Searches(DOMAIN deps)
         /\ Numbered(deps, s) /\ Stacked(reach, grey, s) /\ Parted(deps, reach, grey, s)
         /\ DOMAIN s.index = DOMAIN deps
         /\ \A j \in 1 .. Len(s.stack) : s.stack[j] \in DOMAIN deps /\ s.index[s.stack[j]] # 0
  <1>1. Numbered(deps, s) /\ Stacked(reach, grey, s) /\ Parted(deps, reach, grey, s)
    BY DEF SearchInv
  <1>2. s \in Searches(DOMAIN deps)
    BY <1>1 DEF Numbered
  <1>3. IsSearch(DOMAIN deps, s)
    BY <1>2, SearchParts
  <1> QED
    BY <1>1, <1>2, <1>3 DEF IsSearch, Stacked

(* A stack above another has it below, with the same numbers.              *)
LEMMA KeptBelow ==
  ASSUME NEW deps, NEW reach, NEW grey, NEW s, NEW g, NEW t, Reaches(deps, reach),
         SearchInv(deps, reach, grey, s), SearchInv(deps, reach, g, t), Above(s, t)
  PROVE  /\ \A j \in 1 .. Len(s.stack) :
              /\ j \in 1 .. Len(t.stack) /\ t.stack[j] = s.stack[j]
              /\ t.index[t.stack[j]] = s.index[s.stack[j]]
         /\ Len(s.stack) \in Nat /\ Len(t.stack) \in Nat
         /\ s.counter \in Nat /\ t.counter \in Nat
  <1>1. /\ IsSearch(DOMAIN deps, s) /\ DOMAIN s.index = DOMAIN deps
        /\ \A j \in 1 .. Len(s.stack) : s.stack[j] \in DOMAIN deps /\ s.index[s.stack[j]] # 0
    BY SearchFacts
  <1>2. IsSearch(DOMAIN deps, t)
    BY SearchFacts
  <1>3. /\ Len(s.stack) \in Nat /\ Len(t.stack) \in Nat
        /\ s.counter \in Nat /\ t.counter \in Nat
    BY <1>1, <1>2 DEF IsSearch
  <1>4. Len(s.stack) <= Len(t.stack)
    BY DEF Above
  <1>5. ASSUME NEW j \in 1 .. Len(s.stack)
        PROVE  /\ j \in 1 .. Len(t.stack) /\ t.stack[j] = s.stack[j]
               /\ t.index[t.stack[j]] = s.index[s.stack[j]]
    <2>1. t.stack[j] = s.stack[j]
      BY DEF Above
    <2>2. t.index[s.stack[j]] = s.index[s.stack[j]]
      BY <1>1 DEF Above
    <2> QED
      BY <1>3, <1>4, <2>1, <2>2
  <1> QED
    BY <1>3, <1>5

(* While v is explored, only what lies below it has a lower index.         *)
LEMMA LowerIsBelow ==
  ASSUME NEW deps, NEW reach, NEW grey, NEW v, NEW s, NEW i, NEW t, Reaches(deps, reach),
         MayVisit(deps, reach, grey, v, s), Exploring(deps, reach, grey, v, s, i, t),
         NEW j \in 1 .. Len(t.stack), t.index[t.stack[j]] < s.counter
  PROVE  /\ j \in 1 .. Len(s.stack) /\ t.stack[j] = s.stack[j]
         /\ t.index[t.stack[j]] = s.index[s.stack[j]]
  <1> DEFINE g == grey \cup {v}
  <1>0. /\ SearchInv(deps, reach, grey, s) /\ SearchInv(deps, reach, g, t) /\ Above(s, t)
        /\ Len(s.stack) < Len(t.stack) /\ t.stack[Len(s.stack) + 1] = v
        /\ t.index[v] = s.counter
    BY DEF MayVisit, Exploring
  <1> HIDE DEF g
  <1>1. /\ Len(s.stack) \in Nat /\ Len(t.stack) \in Nat
        /\ \A a \in 1 .. Len(s.stack) : /\ t.stack[a] = s.stack[a]
                                        /\ t.index[t.stack[a]] = s.index[s.stack[a]]
    BY <1>0, KeptBelow
  <1>2. IsSearch(DOMAIN deps, t) /\ Stacked(reach, g, t) /\ Numbered(deps, t)
    BY <1>0, SearchFacts
  <1>3. /\ DOMAIN t.stack = 1 .. Len(t.stack)
        /\ \A a \in 1 .. Len(t.stack) : t.index[t.stack[a]] \in Nat
    BY <1>2 DEF IsSearch
  <1>4. ~ (Len(s.stack) < j)
    <2> SUFFICES ASSUME Len(s.stack) < j PROVE FALSE
      OBVIOUS
    <2>1. Len(s.stack) + 1 \in 1 .. Len(t.stack)
      BY <1>0, <1>1
    <2>2. CASE j = Len(s.stack) + 1
      BY <1>0, <1>3, <2>1, <2>2
    <2>3. CASE Len(s.stack) + 1 < j
      <3>1. t.index[t.stack[Len(s.stack) + 1]] < t.index[t.stack[j]]
        BY <1>2, <1>3, <2>1, <2>3 DEF Stacked
      <3>2. t.index[t.stack[Len(s.stack) + 1]] \in Nat
        BY <1>3, <2>1
      <3> QED
        BY <1>0, <1>3, <3>1, <3>2
    <2> QED
      BY <1>1, <2>2, <2>3
  <1>5. j \in 1 .. Len(s.stack)
    BY <1>1, <1>4
  <1> QED
    BY <1>1, <1>5

(* The loop has gone on once the low number is set.                        *)
LEMMA LowSet ==
  ASSUME NEW deps, NEW reach, NEW grey, NEW v, NEW s, NEW i, NEW u, NEW x \in Nat, NEW t,
         Reaches(deps, reach), MayVisit(deps, reach, grey, v, s),
         SearchInv(deps, reach, grey \cup {v}, u), Above(s, u),
         Len(s.stack) < Len(u.stack), u.stack[Len(s.stack) + 1] = v,
         u.index[v] = s.counter, s.counter < u.counter,
         x <= s.counter, x < s.counter => FromBelow(reach, v, s, x),
         \A k \in Len(s.stack) + 2 .. Len(u.stack) : NoLower(deps, s, x, u.stack[k]),
         \A a \in 1 .. i : u.index[deps[v][a]] # 0,
         \A a \in 1 .. i : \A j \in 1 .. Len(s.stack) :
           deps[v][a] = s.stack[j] => x <= s.index[s.stack[j]],
         t = [u EXCEPT !.low[v] = x]
  PROVE  Exploring(deps, reach, grey, v, s, i, t)
  <1>1. v \in DOMAIN deps /\ s.index[v] = 0 /\ SearchInv(deps, reach, grey, s)
    BY DEF MayVisit
  <1>2. /\ SearchInv(deps, reach, grey \cup {v}, t)
        /\ t.counter = u.counter /\ t.stack = u.stack /\ t.index = u.index
        /\ t.low[v] = x /\ \A m \in DOMAIN deps : m # v => t.low[m] = u.low[m]
    <2>1. LowKept(deps, reach, grey \cup {v}, v, u, x, t)
      BY <1>1, LowKeeps
    <2> QED
      BY <2>1 DEF LowKept
  <1>3. DOMAIN s.index = DOMAIN deps
    BY <1>1, SearchFacts
  <1>4. Above(s, t)
    BY <1>1, <1>2, <1>3 DEF Above
  <1> QED
    BY <1>2, <1>4 DEF Exploring

(* What is above what is above.                                            *)
LEMMA AboveBoth ==
  ASSUME NEW deps, NEW reach, NEW grey, NEW s, NEW g, NEW t, NEW h, NEW u,
         Reaches(deps, reach), SearchInv(deps, reach, grey, s), SearchInv(deps, reach, g, t),
         SearchInv(deps, reach, h, u), Above(s, t), Above(t, u)
  PROVE  Above(s, u)
  <1>1. /\ IsSearch(DOMAIN deps, s) /\ IsSearch(DOMAIN deps, t) /\ IsSearch(DOMAIN deps, u)
        /\ DOMAIN s.index = DOMAIN deps /\ DOMAIN t.index = DOMAIN deps
    BY SearchFacts
  <1>2. Len(s.stack) <= Len(u.stack) /\ s.counter <= u.counter
    <2>1. /\ Len(s.stack) \in Nat /\ Len(t.stack) \in Nat /\ Len(u.stack) \in Nat
          /\ s.counter \in Nat /\ t.counter \in Nat /\ u.counter \in Nat
      BY <1>1 DEF IsSearch
    <2>2. /\ Len(s.stack) <= Len(t.stack) /\ Len(t.stack) <= Len(u.stack)
          /\ s.counter <= t.counter /\ t.counter <= u.counter
      BY DEF Above
    <2> QED
      BY <2>1, <2>2
  <1>3. \A i \in 1 .. Len(s.stack) : u.stack[i] = s.stack[i]
    <2> TAKE i \in 1 .. Len(s.stack)
    <2>1. i \in 1 .. Len(t.stack) /\ t.stack[i] = s.stack[i]
      BY KeptBelow
    <2> QED
      BY <2>1 DEF Above
  <1>4. \A m \in DOMAIN s.index :
          s.index[m] # 0 => u.index[m] = s.index[m] /\ u.low[m] = s.low[m]
    BY <1>1 DEF Above
  <1> QED
    BY <1>2, <1>3, <1>4 DEF Above

(* A dependent not yet seen is visited, and v learns how far down that     *)
(* leads.                                                                  *)
LEMMA VisitGoesOn ==
  ASSUME NEW deps, NEW reach, NEW grey, NEW v, NEW s, NEW i, NEW t, NEW u, NEW after,
         Reaches(deps, reach), MayVisit(deps, reach, grey, v, s), i \in DOMAIN deps[v],
         Exploring(deps, reach, grey, v, s, i - 1, t), t.index[deps[v][i]] = 0,
         VisitDone(deps, reach, grey \cup {v}, deps[v][i], t, u),
         after = [u EXCEPT !.low[v] = LowestOf(u.low[v], u.low[deps[v][i]])]
  PROVE  Exploring(deps, reach, grey, v, s, i, after)
  <1> DEFINE U == DOMAIN deps
             L == Len(s.stack)
             w == deps[v][i]
             x == LowestOf(u.low[v], u.low[w])
  <1>1. /\ SearchInv(deps, reach, grey, s) /\ v \in U /\ s.index[v] = 0
        /\ SearchInv(deps, reach, grey \cup {v}, t) /\ Above(s, t)
        /\ L < Len(t.stack) /\ t.stack[L + 1] = v
        /\ t.index[v] = s.counter /\ s.counter < t.counter /\ t.low[v] <= s.counter
        /\ SearchInv(deps, reach, grey \cup {v}, u) /\ Above(t, u) /\ u.index[w] # 0
    BY DEF MayVisit, Exploring, VisitDone
  <1>2. /\ deps[v] \in Seq(U) /\ i \in 1 .. Len(deps[v]) /\ i \in Nat /\ w \in U
        /\ w \in ToSet(deps[v])
        /\ w \in reach[v] /\ reach[w] \subseteq reach[v]
    <2>1. deps[v] \in Seq(U) /\ ToSet(deps[v]) \subseteq reach[v]
      BY <1>1 DEF Reaches
    <2>2. i \in 1 .. Len(deps[v]) /\ i \in Nat /\ w \in U /\ w \in ToSet(deps[v])
      BY <2>1 DEF ToSet
    <2> QED
      BY <1>1, <2>1, <2>2 DEF Reaches
  <1>3. Above(s, u)
    BY <1>1, AboveBoth
  <1>4. /\ IsSearch(U, s) /\ IsSearch(U, t) /\ IsSearch(U, u) /\ DOMAIN t.index = U
        /\ Numbered(deps, s)
    BY <1>1, SearchFacts
  <1>5. /\ s.counter \in Nat /\ t.counter \in Nat /\ u.counter \in Nat /\ L \in Nat
        /\ Len(t.stack) \in Nat /\ Len(u.stack) \in Nat
        /\ s.counter >= 1 /\ t.low[v] \in Nat
        /\ u.low[v] \in Nat /\ u.low[w] \in Nat
        /\ Len(t.stack) <= Len(u.stack) /\ t.counter <= u.counter
    BY <1>1, <1>2, <1>4 DEF IsSearch, Numbered, Above
  <1>6. u.index[v] = s.counter /\ u.low[v] = t.low[v]
    BY <1>1, <1>4, <1>5 DEF Above
  <1>7. x \in Nat /\ x <= t.low[v] /\ x <= u.low[w] /\ (x = t.low[v] \/ x = u.low[w])
    BY <1>5, <1>6 DEF LowestOf
  <1>8. L < Len(u.stack) /\ u.stack[L + 1] = v /\ s.counter < u.counter
    <2>1. L + 1 \in 1 .. Len(t.stack)
      BY <1>1, <1>5
    <2>2. u.stack[L + 1] = t.stack[L + 1]
      BY <1>1, <2>1 DEF Above
    <2> QED
      BY <1>1, <1>5, <2>2
  <1>9. \A j \in 1 .. L : /\ j \in 1 .. Len(t.stack) /\ t.stack[j] = s.stack[j]
                          /\ t.index[t.stack[j]] = s.index[s.stack[j]]
                          /\ s.index[s.stack[j]] \in Nat /\ s.index[s.stack[j]] # 0
    <2>1. \A j \in 1 .. L : s.index[s.stack[j]] \in Nat /\ s.index[s.stack[j]] # 0
      <3>1. \A j \in 1 .. L : s.stack[j] \in U /\ s.index[s.stack[j]] # 0
        BY <1>1, SearchFacts
      <3>2. s.index \in [U -> Nat]
        BY <1>4 DEF IsSearch
      <3> QED
        BY <3>1, <3>2
    <2> QED
      BY <1>1, <2>1, KeptBelow
  <1> HIDE DEF x
  <1>10. x <= s.counter
    BY <1>1, <1>5, <1>7
  <1>11. ASSUME x < s.counter PROVE FromBelow(reach, v, s, x)
    <2>1. CASE x = t.low[v]
      BY <1>11, <2>1 DEF Exploring
    <2>2. CASE x = u.low[w]
      <3>1. FromBelow(reach, w, t, x)
        <4>1. ~ (t.counter <= u.low[w])
          BY <1>1, <1>5, <1>11, <2>2
        <4> QED
          BY <2>2, <4>1 DEF VisitDone
      <3>2. PICK j \in 1 .. Len(t.stack) : x = t.index[t.stack[j]] /\ t.stack[j] \in reach[w]
        BY <3>1 DEF FromBelow
      <3>3. t.index[t.stack[j]] < s.counter
        BY <1>11, <3>2
      <3>4. /\ j \in 1 .. L /\ t.stack[j] = s.stack[j]
            /\ t.index[t.stack[j]] = s.index[s.stack[j]]
        BY <3>3, LowerIsBelow
      <3> QED
        BY <1>2, <3>2, <3>4 DEF FromBelow
    <2> QED
      BY <1>7, <2>1, <2>2
  <1>12. ASSUME NEW k \in L + 2 .. Len(u.stack) PROVE NoLower(deps, s, x, u.stack[k])
    <2> SUFFICES ASSUME NEW j \in 1 .. L, s.stack[j] \in ToSet(deps[u.stack[k]])
                 PROVE  x <= s.index[s.stack[j]]
      BY DEF NoLower
    <2>1. CASE k \in L + 2 .. Len(t.stack)
      <3>1. u.stack[k] = t.stack[k]
        <4>1. k \in 1 .. Len(t.stack)
          BY <1>5, <2>1
        <4> QED
          BY <1>1, <4>1 DEF Above
      <3>2. t.low[v] <= s.index[s.stack[j]]
        BY <2>1, <3>1 DEF Exploring, NoLower
      <3> QED
        BY <1>5, <1>7, <1>9, <3>2
    <2>2. CASE k \in Len(t.stack) + 1 .. Len(u.stack)
      <3>1. NoLower(deps, t, u.low[w], u.stack[k])
        BY <2>2 DEF VisitDone
      <3>2. t.stack[j] \in ToSet(deps[u.stack[k]]) /\ j \in 1 .. Len(t.stack)
        BY <1>9
      <3>3. u.low[w] <= t.index[t.stack[j]]
        BY <3>1, <3>2 DEF NoLower
      <3> QED
        <4>1. t.index[t.stack[j]] = s.index[s.stack[j]] /\ s.index[s.stack[j]] \in Nat
          BY <1>9
        <4>2. u.low[w] <= s.index[s.stack[j]]
          BY <3>3, <4>1
        <4> QED
          BY <1>5, <1>7, <4>1, <4>2
    <2> QED
      BY <1>5, <2>1, <2>2
  <1>13. \A a \in 1 .. i : a \in 1 .. i - 1 \/ a = i
    BY <1>2
  <1>14. \A a \in 1 .. i - 1 : deps[v][a] \in U
    BY <1>2
  <1>15. \A a \in 1 .. i : u.index[deps[v][a]] # 0
    <2>1. \A a \in 1 .. i - 1 : u.index[deps[v][a]] # 0
      <3> TAKE a \in 1 .. i - 1
      <3>1. t.index[deps[v][a]] # 0
        BY DEF Exploring
      <3> QED
        BY <1>1, <1>4, <1>14, <3>1 DEF Above
    <2> QED
      BY <1>1, <1>13, <2>1
  <1>16. \A a \in 1 .. i : \A j \in 1 .. L :
           deps[v][a] = s.stack[j] => x <= s.index[s.stack[j]]
    <2> SUFFICES ASSUME NEW a \in 1 .. i, NEW j \in 1 .. L, deps[v][a] = s.stack[j]
                 PROVE  x <= s.index[s.stack[j]]
      OBVIOUS
    <2>1. CASE a \in 1 .. i - 1
      <3>1. t.low[v] <= s.index[s.stack[j]]
        BY <2>1 DEF Exploring
      <3> QED
        BY <1>5, <1>7, <1>9, <3>1
    <2>2. CASE a = i
      BY <1>9, <2>2
    <2> QED
      BY <1>13, <2>1, <2>2
  <1>17. after = [u EXCEPT !.low[v] = x]
    BY Zenon DEF x
  <1> QED
    BY <1>1, <1>3, <1>6, <1>7, <1>8, <1>10, <1>11, <1>12, <1>15, <1>16, <1>17, LowSet

(* One on the stack tells how far down it is itself.                       *)
LEMMA StackGoesOn ==
  ASSUME NEW deps, NEW reach, NEW grey, NEW v, NEW s, NEW i, NEW t, NEW after,
         Reaches(deps, reach), MayVisit(deps, reach, grey, v, s), i \in DOMAIN deps[v],
         Exploring(deps, reach, grey, v, s, i - 1, t), t.index[deps[v][i]] # 0,
         deps[v][i] \in ToSet(t.stack),
         after = [t EXCEPT !.low[v] = LowestOf(t.low[v], t.index[deps[v][i]])]
  PROVE  Exploring(deps, reach, grey, v, s, i, after)
  <1> DEFINE U == DOMAIN deps
             L == Len(s.stack)
             w == deps[v][i]
             x == LowestOf(t.low[v], t.index[w])
  <1>1. /\ SearchInv(deps, reach, grey, s) /\ v \in U /\ s.index[v] = 0
        /\ SearchInv(deps, reach, grey \cup {v}, t) /\ Above(s, t)
        /\ L < Len(t.stack) /\ t.stack[L + 1] = v
        /\ t.index[v] = s.counter /\ s.counter < t.counter /\ t.low[v] <= s.counter
    BY DEF MayVisit, Exploring
  <1>2. /\ deps[v] \in Seq(U) /\ i \in 1 .. Len(deps[v]) /\ i \in Nat /\ w \in U
        /\ w \in reach[v]
    <2>1. deps[v] \in Seq(U) /\ ToSet(deps[v]) \subseteq reach[v]
      BY <1>1 DEF Reaches
    <2>2. i \in 1 .. Len(deps[v]) /\ i \in Nat /\ w \in U /\ w \in ToSet(deps[v])
      BY <2>1 DEF ToSet
    <2> QED
      BY <1>1, <2>1, <2>2
  <1>4. IsSearch(U, s) /\ IsSearch(U, t)
    BY <1>1, SearchFacts
  <1>5. /\ s.counter \in Nat /\ L \in Nat /\ Len(t.stack) \in Nat
        /\ t.low[v] \in Nat /\ t.index[w] \in Nat
    BY <1>1, <1>2, <1>4 DEF IsSearch
  <1>7. x \in Nat /\ x <= t.low[v] /\ x <= t.index[w] /\ (x = t.low[v] \/ x = t.index[w])
    BY <1>5 DEF LowestOf
  <1>9. \A j \in 1 .. L : /\ t.stack[j] = s.stack[j]
                          /\ t.index[t.stack[j]] = s.index[s.stack[j]]
                          /\ s.index[s.stack[j]] \in Nat
    <2>1. \A j \in 1 .. L : s.index[s.stack[j]] \in Nat
      BY <1>4 DEF IsSearch
    <2> QED
      BY <1>1, <2>1, KeptBelow
  <1> HIDE DEF x
  <1>10. x <= s.counter
    BY <1>1, <1>5, <1>7
  <1>11. ASSUME x < s.counter PROVE FromBelow(reach, v, s, x)
    <2>1. CASE x = t.low[v]
      BY <1>11, <2>1 DEF Exploring
    <2>2. CASE x = t.index[w]
      <3>1. PICK j \in 1 .. Len(t.stack) : w = t.stack[j]
        BY <1>4 DEF IsSearch
      <3>2. t.index[t.stack[j]] < s.counter
        BY <1>11, <2>2, <3>1
      <3>3. /\ j \in 1 .. L /\ t.stack[j] = s.stack[j]
            /\ t.index[t.stack[j]] = s.index[s.stack[j]]
        BY <3>2, LowerIsBelow
      <3> QED
        BY <1>2, <2>2, <3>1, <3>3 DEF FromBelow
    <2> QED
      BY <1>7, <2>1, <2>2
  <1>12. ASSUME NEW k \in L + 2 .. Len(t.stack) PROVE NoLower(deps, s, x, t.stack[k])
    <2> SUFFICES ASSUME NEW j \in 1 .. L, s.stack[j] \in ToSet(deps[t.stack[k]])
                 PROVE  x <= s.index[s.stack[j]]
      BY DEF NoLower
    <2>1. t.low[v] <= s.index[s.stack[j]]
      BY DEF Exploring, NoLower
    <2> QED
      BY <1>5, <1>7, <1>9, <2>1
  <1>13. \A a \in 1 .. i : a \in 1 .. i - 1 \/ a = i
    BY <1>2
  <1>15. \A a \in 1 .. i : t.index[deps[v][a]] # 0
    BY <1>13 DEF Exploring
  <1>16. \A a \in 1 .. i : \A j \in 1 .. L :
           deps[v][a] = s.stack[j] => x <= s.index[s.stack[j]]
    <2> SUFFICES ASSUME NEW a \in 1 .. i, NEW j \in 1 .. L, deps[v][a] = s.stack[j]
                 PROVE  x <= s.index[s.stack[j]]
      OBVIOUS
    <2>1. CASE a \in 1 .. i - 1
      <3>1. t.low[v] <= s.index[s.stack[j]]
        BY <2>1 DEF Exploring
      <3> QED
        BY <1>5, <1>7, <1>9, <3>1
    <2>2. CASE a = i
      BY <1>7, <1>9, <2>2
    <2> QED
      BY <1>13, <2>1, <2>2
  <1>17. after = [t EXCEPT !.low[v] = x]
    BY Zenon DEF x
  <1> QED
    BY <1>1, <1>7, <1>10, <1>11, <1>12, <1>15, <1>16, <1>17, LowSet

(* One in a component already changes nothing.                             *)
LEMMA GoneGoesOn ==
  ASSUME NEW deps, NEW reach, NEW grey, NEW v, NEW s, NEW i, NEW t,
         Reaches(deps, reach), MayVisit(deps, reach, grey, v, s), i \in DOMAIN deps[v],
         Exploring(deps, reach, grey, v, s, i - 1, t), t.index[deps[v][i]] # 0,
         deps[v][i] \notin ToSet(t.stack)
  PROVE  Exploring(deps, reach, grey, v, s, i, t)
  <1>1. /\ SearchInv(deps, reach, grey, s) /\ v \in DOMAIN deps
        /\ SearchInv(deps, reach, grey \cup {v}, t) /\ Above(s, t)
    BY DEF MayVisit, Exploring
  <1>2. i \in Nat
    BY <1>1 DEF Reaches
  <1>3. IsSearch(DOMAIN deps, t)
    BY <1>1, SearchFacts
  <1>4. \A j \in 1 .. Len(s.stack) : s.stack[j] \in ToSet(t.stack)
    <2> TAKE j \in 1 .. Len(s.stack)
    <2>1. j \in 1 .. Len(t.stack) /\ t.stack[j] = s.stack[j]
      BY <1>1, KeptBelow
    <2> QED
      BY <1>3, <2>1 DEF IsSearch
  <1>5. \A a \in 1 .. i : a \in 1 .. i - 1 \/ a = i
    BY <1>2
  <1>6. \A a \in 1 .. i : t.index[deps[v][a]] # 0
    BY <1>5 DEF Exploring
  <1>7. \A a \in 1 .. i : \A j \in 1 .. Len(s.stack) :
          deps[v][a] = s.stack[j] => t.low[v] <= s.index[s.stack[j]]
    BY <1>4, <1>5 DEF Exploring
  <1> QED
    BY <1>6, <1>7 DEF Exploring

(* What lies above a place of a list.                                      *)
LEMMA UpperPart ==
  ASSUME NEW S, NEW q \in Seq(S), NEW k \in Nat, k < Len(q)
  PROVE  ToSet(SubSeq(q, k + 1, Len(q))) = {q[i] : i \in k + 1 .. Len(q)}
  <1> DEFINE r == SubSeq(q, k + 1, Len(q))
             n == Len(q) - k
  <1>1. /\ Len(q) \in Nat /\ k + 1 \in Int /\ k + 1 <= Len(q) /\ n \in Nat
        /\ Len(q) - (k + 1) + 1 = n /\ \A i \in k + 1 .. Len(q) : q[i] \in S
    OBVIOUS
  <1>2. /\ r \in Seq(S) /\ Len(r) = Len(q) - (k + 1) + 1
        /\ \A j \in 1 .. Len(q) - (k + 1) + 1 : r[j] = q[k + 1 + j - 1]
    BY <1>1, SubSeqProperties
  <1> HIDE DEF r, n
  <1>3. DOMAIN r = 1 .. n /\ \A j \in 1 .. n : r[j] = q[k + j]
    <2>1. \A j \in 1 .. n : k + 1 + j - 1 = k + j
      BY <1>1
    <2> QED
      BY <1>1, <1>2, <2>1
  <1>4. ToSet(r) = {r[j] : j \in 1 .. n}
    BY <1>3 DEF ToSet
  <1>5. \A j \in 1 .. n : k + j \in k + 1 .. Len(q)
    BY <1>1 DEF n
  <1>6. \A i \in k + 1 .. Len(q) : i - k \in 1 .. n /\ k + (i - k) = i
    BY <1>1 DEF n
  <1>7. \A i \in k + 1 .. Len(q) : q[i] = r[i - k]
    BY <1>3, <1>6
  <1>8. ToSet(r) = {q[i] : i \in k + 1 .. Len(q)}
    <2>1. ASSUME NEW j \in 1 .. n PROVE r[j] \in {q[i] : i \in k + 1 .. Len(q)}
      BY <1>3, <1>5
    <2>2. ASSUME NEW i \in k + 1 .. Len(q) PROVE q[i] \in {r[j] : j \in 1 .. n}
      BY <1>6, <1>7
    <2> QED
      BY <1>4, <2>1, <2>2
  <1> QED
    BY <1>3, <1>8 DEF r

(* Nothing lies on the stack twice.                                        *)
LEMMA StackApart ==
  ASSUME NEW deps, NEW reach, NEW grey, NEW s, Reaches(deps, reach),
         SearchInv(deps, reach, grey, s), NEW i \in 1 .. Len(s.stack), NEW j \in 1 .. Len(s.stack),
         s.stack[i] = s.stack[j]
  PROVE  i = j
  <1>1. IsSearch(DOMAIN deps, s) /\ Stacked(reach, grey, s)
    BY SearchFacts
  <1>2. /\ Len(s.stack) \in Nat /\ DOMAIN s.stack = 1 .. Len(s.stack)
        /\ s.index[s.stack[i]] \in Nat
    BY <1>1 DEF IsSearch
  <1>3. /\ i < j => s.index[s.stack[i]] < s.index[s.stack[j]]
        /\ j < i => s.index[s.stack[j]] < s.index[s.stack[i]]
    BY <1>1, <1>2 DEF Stacked
  <1> QED
    BY <1>2, <1>3

(* With every dependent examined, the module has fed only what was seen,   *)
(* and nothing further down than its low number.                           *)
LEMMA AllExamined ==
  ASSUME NEW deps, NEW reach, NEW grey, NEW v, NEW s, NEW t, Reaches(deps, reach),
         MayVisit(deps, reach, grey, v, s),
         Exploring(deps, reach, grey, v, s, Len(deps[v]), t)
  PROVE  /\ \A n \in ToSet(deps[v]) : t.index[n] # 0
         /\ \A k \in Len(s.stack) + 1 .. Len(t.stack) : NoLower(deps, s, t.low[v], t.stack[k])
         /\ \A m \in DOMAIN deps \ grey : t.index[m] # 0 => \A n \in ToSet(deps[m]) : t.index[n] # 0
  <1>1. /\ SearchInv(deps, reach, grey, s) /\ v \in DOMAIN deps
        /\ SearchInv(deps, reach, grey \cup {v}, t) /\ t.stack[Len(s.stack) + 1] = v
    BY DEF MayVisit, Exploring
  <1>2. deps[v] \in Seq(DOMAIN deps)
    BY <1>1 DEF Reaches
  <1>3. \A n \in ToSet(deps[v]) : \E a \in 1 .. Len(deps[v]) : deps[v][a] = n
    BY <1>2 DEF ToSet
  <1>4. \A n \in ToSet(deps[v]) : t.index[n] # 0
    BY <1>3 DEF Exploring
  <1>5. NoLower(deps, s, t.low[v], v)
    BY <1>3 DEF Exploring, NoLower
  <1>6. Len(s.stack) \in Nat /\ Len(t.stack) \in Nat
    BY <1>1, SearchFacts DEF IsSearch
  <1>7. \A k \in Len(s.stack) + 1 .. Len(t.stack) : NoLower(deps, s, t.low[v], t.stack[k])
    <2> TAKE k \in Len(s.stack) + 1 .. Len(t.stack)
    <2>1. k = Len(s.stack) + 1 \/ k \in Len(s.stack) + 2 .. Len(t.stack)
      BY <1>6
    <2> QED
      BY <1>1, <1>5, <2>1 DEF Exploring
  <1>8. Parted(deps, reach, grey \cup {v}, t)
    BY <1>1, SearchFacts
  <1> QED
    BY <1>4, <1>7, <1>8 DEF Parted

(* A visit that found a way further down leaves its module on the stack.   *)
LEMMA StaysOnStack ==
  ASSUME NEW deps, NEW reach, NEW grey, NEW v, NEW s, NEW t, Reaches(deps, reach),
         MayVisit(deps, reach, grey, v, s),
         Exploring(deps, reach, grey, v, s, Len(deps[v]), t), t.low[v] # t.index[v]
  PROVE  VisitDone(deps, reach, grey, v, s, t)
  <1> DEFINE U == DOMAIN deps
             L == Len(s.stack)
             M == Len(t.stack)
  <1>1. /\ SearchInv(deps, reach, grey, s) /\ v \in U
        /\ SearchInv(deps, reach, grey \cup {v}, t) /\ Above(s, t)
        /\ L < M /\ t.stack[L + 1] = v
        /\ t.index[v] = s.counter /\ s.counter < t.counter /\ t.low[v] <= s.counter
    BY DEF MayVisit, Exploring
  <1>2. /\ IsSearch(U, s) /\ IsSearch(U, t) /\ Numbered(deps, s) /\ Stacked(reach, grey, s)
        /\ Numbered(deps, t) /\ Stacked(reach, grey \cup {v}, t)
        /\ Parted(deps, reach, grey \cup {v}, t)
    BY <1>1, SearchFacts
  <1>3. /\ s.counter \in Nat /\ s.counter >= 1 /\ L \in Nat /\ M \in Nat /\ t.low[v] \in Nat
        /\ DOMAIN s.stack = 1 .. L /\ DOMAIN t.stack = 1 .. M
        /\ \A i \in 1 .. L : s.stack[i] \in U
        /\ \A i \in 1 .. M : t.stack[i] \in U
    BY <1>1, <1>2 DEF IsSearch, Numbered
  <1>4. FromBelow(reach, v, s, t.low[v])
    <2>1. t.low[v] < s.counter
      BY <1>1, <1>3
    <2> QED
      BY <2>1 DEF Exploring
  <1>5. \A j \in 1 .. L : j \in 1 .. M /\ t.stack[j] = s.stack[j]
    BY <1>1, KeptBelow
  <1>6. \A i \in 1 .. M : \E j \in 1 .. i : t.stack[j] \in grey /\ t.stack[j] \in reach[t.stack[i]]
    <2> TAKE i \in 1 .. M
    <2>1. CASE i \in 1 .. L
      <3>1. PICK j \in 1 .. i : s.stack[j] \in grey /\ s.stack[j] \in reach[s.stack[i]]
        BY <1>2, <1>3, <2>1 DEF Stacked
      <3>2. j \in 1 .. L
        BY <1>3, <2>1
      <3> QED
        BY <1>5, <2>1, <3>1, <3>2
    <2>2. CASE L < i
      <3>1. PICK j \in 1 .. i : /\ t.stack[j] \in grey \cup {v}
                                /\ t.stack[j] \in reach[t.stack[i]]
        BY <1>2, <1>3 DEF Stacked
      <3>2. CASE t.stack[j] \in grey
        BY <3>1, <3>2
      <3>3. CASE t.stack[j] = v
        <4>1. PICK q \in 1 .. L : s.stack[q] \in reach[v]
          BY <1>4 DEF FromBelow
        <4>2. PICK p \in 1 .. q : s.stack[p] \in grey /\ s.stack[p] \in reach[s.stack[q]]
          BY <1>2, <1>3 DEF Stacked
        <4>3. p \in 1 .. L /\ p \in 1 .. i
          BY <1>3, <2>2
        <4>4. s.stack[q] \in reach[t.stack[i]]
          <5>1. t.stack[i] \in U /\ v \in reach[t.stack[i]]
            BY <1>3, <3>1, <3>3
          <5>2. reach[v] \subseteq reach[t.stack[i]]
            BY <1>1, <5>1 DEF Reaches
          <5> QED
            BY <4>1, <5>2
        <4>5. s.stack[p] \in reach[t.stack[i]]
          BY <1>3, <4>2, <4>4 DEF Reaches
        <4> QED
          BY <1>5, <4>2, <4>3, <4>5
      <3> QED
        BY <3>1, <3>2, <3>3
    <2>3. i \in 1 .. L \/ L < i
      BY <1>3
    <2> QED
      BY <2>1, <2>2, <2>3
  <1>7. Stacked(reach, grey, t)
    BY <1>2, <1>3, <1>6 DEF Stacked
  <1>8. Parted(deps, reach, grey, t)
    <2>1. \A m \in U \ grey : t.index[m] # 0 => \A n \in ToSet(deps[m]) : t.index[n] # 0
      BY AllExamined
    <2> QED
      BY <1>2, <2>1 DEF Parted
  <1>9. SearchInv(deps, reach, grey, t)
    BY <1>2, <1>7, <1>8 DEF SearchInv
  <1>10. \A k \in L + 1 .. M : NoLower(deps, s, t.low[v], t.stack[k])
    BY AllExamined
  <1> QED
    BY <1>1, <1>3, <1>4, <1>9, <1>10 DEF VisitDone

(* One that found none closes the loops through its module: all from there *)
(* up.                                                                     *)
LEMMA ClosesLoop ==
  ASSUME NEW deps, NEW reach, NEW grey, NEW v, NEW s, NEW t, Reaches(deps, reach),
         MayVisit(deps, reach, grey, v, s),
         Exploring(deps, reach, grey, v, s, Len(deps[v]), t), t.low[v] = t.index[v]
  PROVE  VisitDone(deps, reach, grey, v, s, Closed(v, t))
  <1> DEFINE U == DOMAIN deps
             L == Len(s.stack)
             M == Len(t.stack)
             P == {t.stack[k] : k \in L + 1 .. M}
             c == Closed(v, t)
             X == P \cup Gone(t)
  <1>1. /\ SearchInv(deps, reach, grey, s) /\ v \in U /\ \A g \in grey : v \in reach[g]
        /\ SearchInv(deps, reach, grey \cup {v}, t) /\ Above(s, t)
        /\ L < M /\ t.stack[L + 1] = v
        /\ t.index[v] = s.counter /\ s.counter < t.counter
    BY DEF MayVisit, Exploring
  <1>2. /\ IsSearch(U, s) /\ IsSearch(U, t) /\ Numbered(deps, s) /\ Stacked(reach, grey, s)
        /\ Numbered(deps, t) /\ Stacked(reach, grey \cup {v}, t)
        /\ Parted(deps, reach, grey \cup {v}, t) /\ t \in Searches(U)
    BY <1>1, SearchFacts
  <1>3. /\ s.counter \in Nat /\ s.counter >= 1 /\ L \in Nat /\ M \in Nat
        /\ DOMAIN s.stack = 1 .. L /\ DOMAIN t.stack = 1 .. M
        /\ \A i \in 1 .. L : s.stack[i] \in U
        /\ \A i \in 1 .. M : t.stack[i] \in U
        /\ s.stack \in Seq(U) /\ t.stack \in Seq(U)
        /\ L + 1 \in 1 .. M
    <2>1. /\ s.counter \in Nat /\ s.counter >= 1 /\ L \in Nat
          /\ DOMAIN s.stack = 1 .. L /\ s.stack \in Seq(U) /\ \A i \in 1 .. L : s.stack[i] \in U
      BY <1>2 DEF IsSearch, Numbered
    <2>2. /\ M \in Nat /\ DOMAIN t.stack = 1 .. M /\ t.stack \in Seq(U)
          /\ \A i \in 1 .. M : t.stack[i] \in U
      BY <1>2 DEF IsSearch
    <2>3. L + 1 \in 1 .. M
      BY <1>1, <2>1, <2>2
    <2> QED
      BY <2>1, <2>2, <2>3
  <1>4. \A j \in 1 .. L : /\ j \in 1 .. M /\ t.stack[j] = s.stack[j]
                          /\ t.index[t.stack[j]] = s.index[s.stack[j]]
    BY <1>1, KeptBelow
  <1>5. ToSet(t.stack) = ToSet(s.stack) \cup P /\ ToSet(s.stack) \cap P = {}
    <2>1. ToSet(t.stack) = {t.stack[i] : i \in 1 .. M} /\ ToSet(s.stack) = {s.stack[i] : i \in 1 .. L}
      BY <1>2 DEF IsSearch
    <2>2. \A i \in 1 .. M : i \in 1 .. L \/ i \in L + 1 .. M
      BY <1>3
    <2>3. \A k \in L + 1 .. M : k \in 1 .. M /\ k \notin 1 .. L
      BY <1>3
    <2>4. ToSet(t.stack) = ToSet(s.stack) \cup P
      BY <1>4, <2>1, <2>2, <2>3
    <2>5. \A k \in L + 1 .. M : \A j \in 1 .. L : t.stack[k] # s.stack[j]
      BY <1>1, <1>4, <2>3, StackApart
    <2>6. ToSet(s.stack) \cap P = {}
      BY <2>1, <2>5
    <2> QED
      BY <2>4, <2>6
  <1>6. \A m \in P : m \in U /\ m \in reach[v] /\ v \in reach[m]
    <2> SUFFICES ASSUME NEW k \in L + 1 .. M
                 PROVE  /\ t.stack[k] \in U /\ t.stack[k] \in reach[v] /\ v \in reach[t.stack[k]]
      OBVIOUS
    <2>1. k \in 1 .. M
      BY <1>3
    <2>2. t.stack[k] \in reach[v]
      <3>1. L + 1 <= k
        BY <1>3
      <3>2. t.stack[k] \in reach[t.stack[L + 1]]
        BY <1>2, <1>3, <2>1, <3>1 DEF Stacked
      <3> QED
        BY <1>1, <3>2
    <2>3. PICK j \in 1 .. k : t.stack[j] \in grey \cup {v} /\ t.stack[j] \in reach[t.stack[k]]
      BY <1>2, <1>3, <2>1 DEF Stacked
    <2>4. j \in 1 .. M
      BY <1>3
    <2>5. v \in reach[t.stack[j]]
      BY <1>1, <2>3 DEF Reaches
    <2>6. v \in reach[t.stack[k]]
      BY <1>3, <2>1, <2>3, <2>4, <2>5 DEF Reaches
    <2> QED
      BY <1>3, <2>1, <2>2, <2>6
  <1>7. /\ Gone(t) = {m \in U : t.index[m] # 0} \ ToSet(t.stack)
        /\ \A m \in Gone(t) : ToSet(deps[m]) \subseteq Gone(t)
        /\ \A scc \in t.sccs : \A m \in scc : scc = Class(reach, m)
    BY <1>2 DEF Parted
  <1>8. \A m \in P : ToSet(deps[m]) \subseteq X
    <2> SUFFICES ASSUME NEW k \in L + 1 .. M, NEW d \in ToSet(deps[t.stack[k]]) PROVE d \in X
      OBVIOUS
    <2>1. k \in 1 .. M /\ t.stack[k] \in U
      BY <1>3
    <2>2. d \in U
      BY <2>1 DEF Reaches
    <2>3. t.index[d] # 0
      <3>1. t.index[t.stack[k]] # 0
        BY <1>2, <1>3, <2>1 DEF Stacked
      <3>2. t.stack[k] \notin grey
        BY <1>2, <1>5 DEF Stacked
      <3> QED
        BY <2>1, <3>1, <3>2, AllExamined
    <2>4. d \notin ToSet(s.stack)
      <3> SUFFICES ASSUME NEW j \in 1 .. L, d = s.stack[j] PROVE FALSE
        BY <1>2 DEF IsSearch
      <3>1. NoLower(deps, s, t.low[v], t.stack[k])
        BY AllExamined
      <3>2. s.counter <= s.index[s.stack[j]]
        BY <1>1, <3>1 DEF NoLower
      <3>3. s.index[s.stack[j]] < s.counter /\ s.index[s.stack[j]] \in Nat
        BY <1>2, <1>3 DEF Numbered, IsSearch
      <3> QED
        BY <1>3, <3>2, <3>3
    <2> QED
      BY <1>5, <1>7, <2>2, <2>3, <2>4
  <1>9. /\ P \subseteq U /\ v \in P /\ Gone(t) \subseteq U
        /\ \A m \in P : m \notin Gone(t) /\ t.index[m] # 0
    <2>1. P \subseteq U /\ v \in P /\ Gone(t) \subseteq U
      BY <1>1, <1>3, <1>6, <1>7
    <2>2. \A k \in L + 1 .. M : t.index[t.stack[k]] # 0
      BY <1>2, <1>3 DEF Stacked
    <2> QED
      BY <1>5, <1>7, <2>1, <2>2
  <1> HIDE DEF P
  <1>10. reach[v] \subseteq X
    <2>1. X \in SUBSET U /\ v \in X /\ \A n \in X : ToSet(deps[n]) \subseteq X
      BY <1>7, <1>8, <1>9
    <2> HIDE DEF X
    <2> QED
      BY <1>1, <2>1 DEF Reaches
  <1>11. \A m \in P : P = Class(reach, m)
    <2> TAKE m \in P
    <2>1. \A n \in P : n \in reach[m] /\ m \in reach[n]
      BY <1>1, <1>6 DEF Reaches
    <2>2. ASSUME NEW n \in Class(reach, m) PROVE n \in P
      <3>1. n \in reach[m] /\ m \in reach[n]
        BY DEF Class
      <3>2. n \in X
        BY <1>1, <1>6, <1>10, <3>1 DEF Reaches
      <3>3. n \notin Gone(t)
        <4> SUFFICES ASSUME n \in Gone(t) PROVE FALSE
          OBVIOUS
        <4>1. reach[n] \subseteq Gone(t)
          BY <1>7, <1>9 DEF Reaches
        <4> QED
          BY <1>9, <3>1, <4>1
      <3> QED
        BY <3>2, <3>3
    <2> QED
      BY <2>1, <2>2 DEF Class
  <1>12. /\ c.stack = s.stack /\ c.sccs = t.sccs \cup {P} /\ c.counter = t.counter
         /\ c.index = t.index /\ c.low = t.low /\ c \in Searches(U)
    <2> DEFINE at == CHOOSE i \in DOMAIN t.stack : t.stack[i] = v
    <2>1. at = L + 1
      <3>1. at \in 1 .. M /\ t.stack[at] = v
        BY <1>1, <1>3
      <3> HIDE DEF at
      <3> QED
        BY <1>1, <1>3, <3>1, StackApart
    <2>2. c = [t EXCEPT !.stack = SubSeq(t.stack, 1, at - 1),
                        !.sccs = t.sccs \cup {ToSet(SubSeq(t.stack, at, Len(t.stack)))}]
      BY Zenon DEF Closed
    <2> HIDE DEF at
    <2>3. SubSeq(t.stack, 1, at - 1) = s.stack
      <3>1. at - 1 = L
        BY <1>3, <2>1
      <3>2. SubSeq(t.stack, 1, L) = s.stack
        <4>1. SubSeq(t.stack, 1, L) \in Seq(U) /\ Len(SubSeq(t.stack, 1, L)) = L
              /\ \A j \in 1 .. L : SubSeq(t.stack, 1, L)[j] = t.stack[j]
          BY <1>1, <1>3
        <4> QED
          BY <1>3, <1>4, <4>1
      <3> QED
        BY <3>1, <3>2
    <2>4. ToSet(SubSeq(t.stack, at, Len(t.stack))) = P
      <3>1. ToSet(SubSeq(t.stack, L + 1, M)) = {t.stack[k] : k \in L + 1 .. M}
        BY <1>1, <1>3, UpperPart
      <3> QED
        BY <2>1, <3>1 DEF P
    <2>5. c = [t EXCEPT !.stack = s.stack, !.sccs = t.sccs \cup {P}]
      BY <2>2, <2>3, <2>4, Zenon
    <2>6. t.sccs \cup {P} \in SUBSET SUBSET U
      BY <1>2, <1>9 DEF IsSearch
    <2>7. c \in Searches(U)
      BY <1>2, <1>3, <2>5, <2>6, Zenon DEF Searches
    <2> HIDE DEF c
    <2> QED
      BY <1>2, <2>5, <2>7 DEF Searches
  <1> HIDE DEF c
  <1>13. Numbered(deps, c)
    BY <1>2, <1>12 DEF Numbered
  <1>14. Stacked(reach, grey, c)
    <2>1. \A j \in 1 .. L : c.index[s.stack[j]] = s.index[s.stack[j]]
      BY <1>4, <1>12
    <2>2. /\ \A i, j \in 1 .. L : i < j => s.index[s.stack[i]] < s.index[s.stack[j]]
          /\ \A i \in 1 .. L : s.index[s.stack[i]] # 0
      BY <1>2, <1>3 DEF Stacked
    <2>3. /\ \A i, j \in 1 .. L : i < j => c.index[s.stack[i]] < c.index[s.stack[j]]
          /\ \A i \in 1 .. L : c.index[s.stack[i]] # 0
      BY <2>1, <2>2
    <2> QED
      BY <1>2, <1>3, <1>12, <2>3 DEF Stacked
  <1>15. Gone(c) = X
    BY <1>12 DEF Gone
  <1>16. Parted(deps, reach, grey, c)
    <2>1. Gone(c) = {m \in U : c.index[m] # 0} \ ToSet(c.stack)
      BY <1>5, <1>7, <1>9, <1>12, <1>15
    <2>2. \A scc \in c.sccs : \A m \in scc : scc = Class(reach, m)
      BY <1>7, <1>11, <1>12
    <2>3. \A m \in Gone(c) : ToSet(deps[m]) \subseteq Gone(c)
      BY <1>7, <1>8, <1>15
    <2>4. \A m \in U \ grey : c.index[m] # 0 => \A n \in ToSet(deps[m]) : c.index[n] # 0
      BY <1>12, AllExamined
    <2> QED
      BY <2>1, <2>2, <2>3, <2>4 DEF Parted
  <1>17. Above(s, c)
    BY <1>1, <1>3, <1>12 DEF Above
  <1>18. SearchInv(deps, reach, grey, c)
    BY <1>13, <1>14, <1>16 DEF SearchInv
  <1>19. /\ c.index[v] # 0 /\ s.counter <= c.low[v]
         /\ \A k \in L + 1 .. Len(c.stack) : NoLower(deps, s, c.low[v], c.stack[k])
    <2>1. c.index[v] # 0 /\ s.counter <= c.low[v]
      BY <1>1, <1>3, <1>12
    <2>2. L + 1 .. Len(c.stack) = {}
      BY <1>3, <1>12
    <2> QED
      BY <2>1, <2>2
  <1>20. VisitDone(deps, reach, grey, v, s, c)
    BY <1>17, <1>18, <1>19 DEF VisitDone
  <1> QED
    BY <1>20 DEF c

Unseen(deps, t) == {m \in DOMAIN deps : t.index[m] = 0}

(* Calls that do what a visit does, where no more than k were not seen.    *)
CallsVisit(deps, reach, calls, k) ==
  \A grey, v, s : /\ MayVisit(deps, reach, grey, v, s)
                  /\ Cardinality(Unseen(deps, s)) <= k
                  => VisitDone(deps, reach, grey, v, s, calls[v][s])

LEMMA UnseenAre ==
  ASSUME NEW deps, NEW reach, NEW t, Reaches(deps, reach)
  PROVE  IsFiniteSet(Unseen(deps, t)) /\ Cardinality(Unseen(deps, t)) \in Nat
  BY FS_Subset, FS_CardinalityType DEF Unseen, Reaches

(* What was seen stays seen, and v is one more.                            *)
LEMMA FewerUnseen ==
  ASSUME NEW deps, NEW reach, NEW grey, NEW v, NEW s, NEW i, NEW t, Reaches(deps, reach),
         MayVisit(deps, reach, grey, v, s), Exploring(deps, reach, grey, v, s, i, t)
  PROVE  Cardinality(Unseen(deps, t)) < Cardinality(Unseen(deps, s))
  <1>1. /\ SearchInv(deps, reach, grey, s) /\ v \in DOMAIN deps /\ s.index[v] = 0
        /\ Above(s, t) /\ t.index[v] = s.counter
    BY DEF MayVisit, Exploring
  <1>2. /\ DOMAIN s.index = DOMAIN deps /\ s.counter # 0 /\ s.counter \in Nat
    <2>1. Numbered(deps, s) /\ IsSearch(DOMAIN deps, s) /\ DOMAIN s.index = DOMAIN deps
      BY <1>1, SearchFacts
    <2> QED
      BY <2>1 DEF Numbered, IsSearch
  <1>3. Unseen(deps, t) \subseteq Unseen(deps, s) \ {v} /\ v \in Unseen(deps, s)
    BY <1>1, <1>2 DEF Unseen, Above
  <1>4. /\ IsFiniteSet(Unseen(deps, s)) /\ Cardinality(Unseen(deps, s)) \in Nat
        /\ Cardinality(Unseen(deps, t)) \in Nat
    BY UnseenAre
  <1>5. /\ IsFiniteSet(Unseen(deps, s) \ {v})
        /\ Cardinality(Unseen(deps, s) \ {v}) = Cardinality(Unseen(deps, s)) - 1
    BY <1>3, <1>4, FS_RemoveElement
  <1>6. Cardinality(Unseen(deps, t)) <= Cardinality(Unseen(deps, s) \ {v})
    BY <1>3, <1>5, FS_Subset
  <1> QED
    BY <1>4, <1>5, <1>6

(* One dependent after the other, whichever way it is examined.            *)
LEMMA ExamineGoesOn ==
  ASSUME NEW deps, NEW reach, NEW grey, NEW v, NEW s, NEW i, NEW t, NEW calls, NEW k \in Nat,
         Reaches(deps, reach), MayVisit(deps, reach, grey, v, s), i \in DOMAIN deps[v],
         Exploring(deps, reach, grey, v, s, i - 1, t),
         CallsVisit(deps, reach, calls, k), Cardinality(Unseen(deps, s)) <= k + 1
  PROVE  Exploring(deps, reach, grey, v, s, i, Examined(calls, v, deps[v][i], t))
  <1> DEFINE w == deps[v][i]
             U == DOMAIN deps
  <1>1. /\ SearchInv(deps, reach, grey, s) /\ v \in U /\ \A g \in grey : v \in reach[g]
        /\ SearchInv(deps, reach, grey \cup {v}, t)
    BY DEF MayVisit, Exploring
  <1>2. w \in U /\ w \in reach[v]
    <2>1. deps[v] \in Seq(U) /\ ToSet(deps[v]) \subseteq reach[v]
      BY <1>1 DEF Reaches
    <2>2. w \in U /\ w \in ToSet(deps[v])
      BY <2>1 DEF ToSet
    <2> QED
      BY <2>1, <2>2
  <1>3. CASE t.index[w] = 0
    <2>1. \A g \in grey \cup {v} : w \in reach[g]
      <3>1. grey \subseteq U
        <4>1. grey \subseteq ToSet(s.stack) /\ IsSearch(U, s)
          BY <1>1, SearchFacts DEF Stacked
        <4> QED
          <5>1. ToSet(s.stack) = {s.stack[a] : a \in 1 .. Len(s.stack)}
                /\ \A a \in 1 .. Len(s.stack) : s.stack[a] \in U
            BY <4>1 DEF IsSearch
          <5> QED
            BY <4>1, <5>1
      <3> QED
        BY <1>1, <1>2, <3>1 DEF Reaches
    <2>2. MayVisit(deps, reach, grey \cup {v}, w, t)
      BY <1>1, <1>2, <1>3, <2>1 DEF MayVisit
    <2>3. Cardinality(Unseen(deps, t)) <= k
      <3>1. Cardinality(Unseen(deps, t)) \in Nat /\ Cardinality(Unseen(deps, s)) \in Nat
        BY UnseenAre
      <3> QED
        BY <3>1, FewerUnseen
    <2>4. VisitDone(deps, reach, grey \cup {v}, w, t, calls[w][t])
      BY <2>2, <2>3, Zenon DEF CallsVisit
    <2> DEFINE u == calls[w][t]
    <2>5. Examined(calls, v, w, t) = [u EXCEPT !.low[v] = LowestOf(u.low[v], u.low[w])]
      BY <1>3, Zenon DEF Examined
    <2> HIDE DEF u
    <2>6. VisitDone(deps, reach, grey \cup {v}, w, t, u)
      BY <2>4 DEF u
    <2> QED
      BY <1>3, <2>5, <2>6, VisitGoesOn, Zenon
  <1>4. CASE t.index[w] # 0 /\ w \in ToSet(t.stack)
    <2>1. Examined(calls, v, w, t) = [t EXCEPT !.low[v] = LowestOf(t.low[v], t.index[w])]
      BY <1>4, Zenon DEF Examined
    <2> QED
      BY <1>4, <2>1, StackGoesOn, Zenon
  <1>5. CASE t.index[w] # 0 /\ w \notin ToSet(t.stack)
    <2>1. Examined(calls, v, w, t) = t
      BY <1>5, Zenon DEF Examined
    <2> QED
      BY <1>5, <2>1, GoneGoesOn, Zenon
  <1> QED
    BY <1>3, <1>4, <1>5

(* A list has as many members as it says.                                  *)
LEMMA ListLength ==
  ASSUME NEW q, NEW n \in Nat, q = [i \in 1 .. n |-> q[i]]
  PROVE  Len(q) = n
  <1> DEFINE S == {q[i] : i \in 1 .. n}
  <1>1. q \in [1 .. n -> S]
    OBVIOUS
  <1> HIDE DEF S
  <1>2. q \in Seq(S)
    BY <1>1
  <1> QED
    BY <1>1, <1>2

(* The body of a visit does what a visit does, if the calls it makes do.   *)
LEMMA BodyVisits ==
  ASSUME NEW deps, NEW reach, NEW grey, NEW v, NEW s, NEW calls, NEW k \in Nat,
         Reaches(deps, reach), MayVisit(deps, reach, grey, v, s),
         CallsVisit(deps, reach, calls, k), Cardinality(Unseen(deps, s)) <= k + 1
  PROVE  VisitDone(deps, reach, grey, v, s, Visited(calls, deps, v, s))
  <1> DEFINE U == DOMAIN deps
             n == Len(deps[v])
             examine == [i \in DOMAIN deps[v] |->
                           [t \in Searches(U) |-> Examined(calls, v, deps[v][i], t)]]
             start == Entered(v, s)
             done == Through(examine, start)
  <1>1. v \in U
    BY DEF MayVisit
  <1>2. n \in Nat /\ DOMAIN deps[v] = 1 .. n
    BY <1>1 DEF Reaches
  <1>3. /\ \A i \in 1 .. n : \A t \in Searches(U) :
             examine[i][t] = Examined(calls, v, deps[v][i], t)
        /\ Len(examine) = n
    <2>1. \A i \in 1 .. n : \A t \in Searches(U) :
            examine[i][t] = Examined(calls, v, deps[v][i], t)
      BY <1>2
    <2>2. examine = [i \in 1 .. n |-> examine[i]]
      BY <1>2
    <2> HIDE DEF examine
    <2> QED
      BY <1>2, <2>1, <2>2, ListLength
  <1>4. Visited(calls, deps, v, s) = IF done.low[v] = done.index[v] THEN Closed(v, done) ELSE done
    BY Zenon DEF Visited
  <1> HIDE DEF examine
  <1>5. PICK f : /\ f[0] = start /\ \A i \in 1 .. n : f[i] = examine[i][f[i - 1]]
                 /\ done = f[n]
    <2>1. n \in Nat /\ Len(examine) = n
      BY <1>2, <1>3
    <2> HIDE DEF n, start
    <2>2. \E f : GoesThrough(f, examine, start, n)
      BY <2>1, ThroughAll
    <2> QED
      BY <2>2, Zenon DEF done, GoesThrough
  <1>6. Exploring(deps, reach, grey, v, s, 0, f[0])
    BY <1>5, EnteredExplores
  <1> HIDE DEF start, done
  <1>7. ASSUME NEW i \in 1 .. n, Exploring(deps, reach, grey, v, s, i - 1, f[i - 1])
        PROVE  Exploring(deps, reach, grey, v, s, i, f[i])
    <2>1. f[i - 1] \in Searches(U)
      <3>1. SearchInv(deps, reach, grey \cup {v}, f[i - 1])
        BY <1>7 DEF Exploring
      <3> QED
        BY <3>1, SearchFacts
    <2>2. f[i] = Examined(calls, v, deps[v][i], f[i - 1])
      BY <1>3, <1>5, <2>1
    <2>3. i \in DOMAIN deps[v]
      BY <1>2
    <2>4. Exploring(deps, reach, grey, v, s, i, Examined(calls, v, deps[v][i], f[i - 1]))
      BY <1>7, <2>3, ExamineGoesOn
    <2> QED
      BY <2>2, <2>4
  <1>8. Exploring(deps, reach, grey, v, s, n, f[n])
    <2> DEFINE failing == {i \in 0 .. n : ~ Exploring(deps, reach, grey, v, s, i, f[i])}
    <2> SUFFICES ASSUME failing # {} PROVE FALSE
      BY <1>2
    <2>1. PICK i \in failing : \A j \in failing : i <= j
      <3>1. failing \subseteq Nat
        BY <1>2
      <3> HIDE DEF failing
      <3> QED
        BY <3>1, LeastNatural
    <2>2. i # 0 /\ i \in 1 .. n /\ i - 1 \in 0 .. n
      BY <1>2, <1>6, <2>1
    <2>3. i - 1 \notin failing
      <3> HIDE DEF failing
      <3> QED
        BY <1>2, <2>1, <2>2
    <2>4. Exploring(deps, reach, grey, v, s, i - 1, f[i - 1])
      BY <2>2, <2>3
    <2> QED
      BY <1>7, <2>1, <2>2, <2>4
  <1>9. Exploring(deps, reach, grey, v, s, n, done)
    BY <1>5, <1>8
  <1>10. CASE done.low[v] = done.index[v]
    BY <1>4, <1>9, <1>10, ClosesLoop, Zenon
  <1>11. CASE done.low[v] # done.index[v]
    BY <1>4, <1>9, <1>11, StaysOnStack, Zenon
  <1> QED
    BY <1>10, <1>11

(* Visits do, as deep as there are modules.                                *)
LEMMA VisitsVisit ==
  ASSUME NEW deps, NEW reach, Reaches(deps, reach)
  PROVE  CallsVisit(deps, reach, Visit(deps), Cardinality(DOMAIN deps))
  <1> DEFINE U == DOMAIN deps
             N == Cardinality(U)
             R == Visiting(deps)
             failing == {k \in 0 .. N : ~ CallsVisit(deps, reach, R[k], k)}
  <1>1. /\ N \in Nat
        /\ \A k \in 1 .. N : \A v \in U : \A s \in Searches(U) :
             R[k][v][s] = Visited(R[k - 1], deps, v, s)
    BY CallsNest DEF Reaches
  <1> HIDE DEF R
  <1>2. CallsVisit(deps, reach, R[0], 0)
    <2> SUFFICES ASSUME NEW grey, NEW v, NEW s, MayVisit(deps, reach, grey, v, s),
                        Cardinality(Unseen(deps, s)) <= 0
                 PROVE  FALSE
      BY DEF CallsVisit
    <2>1. v \in Unseen(deps, s)
      BY DEF MayVisit, Unseen
    <2>2. IsFiniteSet(Unseen(deps, s)) /\ Cardinality(Unseen(deps, s)) = 0
      <3>1. IsFiniteSet(Unseen(deps, s)) /\ Cardinality(Unseen(deps, s)) \in Nat
        BY UnseenAre
      <3> QED
        BY <3>1
    <2> QED
      BY <2>1, <2>2, FS_EmptySet
  <1>3. ASSUME NEW k \in 1 .. N, CallsVisit(deps, reach, R[k - 1], k - 1)
        PROVE  CallsVisit(deps, reach, R[k], k)
    <2> SUFFICES ASSUME NEW grey, NEW v, NEW s, MayVisit(deps, reach, grey, v, s),
                        Cardinality(Unseen(deps, s)) <= k
                 PROVE  VisitDone(deps, reach, grey, v, s, R[k][v][s])
      BY DEF CallsVisit
    <2>1. v \in U /\ s \in Searches(U)
      BY SearchFacts DEF MayVisit
    <2>2. R[k][v][s] = Visited(R[k - 1], deps, v, s)
      BY <1>1, <2>1
    <2>3. k - 1 \in Nat /\ (k - 1) + 1 = k
      BY <1>1
    <2>4. VisitDone(deps, reach, grey, v, s, Visited(R[k - 1], deps, v, s))
      BY <1>3, <2>3, BodyVisits
    <2> QED
      BY <2>2, <2>4
  <1>4. CallsVisit(deps, reach, R[N], N)
    <2> SUFFICES ASSUME failing # {} PROVE FALSE
      BY <1>1
    <2>1. PICK k \in failing : \A j \in failing : k <= j
      <3>1. failing \subseteq Nat
        BY <1>1
      <3> HIDE DEF failing
      <3> QED
        BY <3>1, LeastNatural
    <2>2. k # 0 /\ k \in 1 .. N /\ k - 1 \in 0 .. N
      BY <1>1, <1>2, <2>1
    <2>3. k - 1 \notin failing
      <3> HIDE DEF failing
      <3> QED
        BY <1>1, <2>1, <2>2
    <2>4. CallsVisit(deps, reach, R[k - 1], k - 1)
      BY <2>2, <2>3
    <2> QED
      BY <1>3, <2>1, <2>2, <2>4
  <1> QED
    BY <1>4 DEF Visit, R

(* Before the first visit nothing was seen, which is in order.             *)
LEMMA SearchBegins ==
  ASSUME NEW deps, NEW reach, Reaches(deps, reach)
  PROVE  SearchInv(deps, reach, {}, NothingSeen(DOMAIN deps))
  <1> DEFINE U == DOMAIN deps
             s == NothingSeen(U)
  <1>1. /\ s.counter = 1 /\ s.stack = <<>> /\ s.sccs = {}
        /\ s.index = [m \in U |-> 0] /\ s.low = [m \in U |-> 0]
    BY DEF NothingSeen
  <1>2. s \in Searches(U)
    <2>1. <<>> \in Seq(U)
      BY EmptySeq
    <2>2. 1 \in Nat /\ [m \in U |-> 0] \in [U -> Nat]
      OBVIOUS
    <2> QED
      BY <2>1, <2>2, Zenon DEF NothingSeen, Searches
  <1> HIDE DEF s
  <1>3. ToSet(s.stack) = {} /\ DOMAIN s.stack = {} /\ Gone(s) = {}
    BY <1>1 DEF ToSet, Gone
  <1>4. \A m \in U : s.index[m] = 0
    BY <1>1
  <1>5. Numbered(deps, s)
    BY <1>1, <1>2, <1>4 DEF Numbered
  <1>6. Stacked(reach, {}, s)
    BY <1>3 DEF Stacked
  <1>7. Parted(deps, reach, {}, s)
    BY <1>1, <1>3, <1>4 DEF Parted
  <1> QED
    BY <1>5, <1>6, <1>7 DEF SearchInv, s

(* A turn of the outer loop: v is visited unless it was seen.              *)
LEMMA OuterTurn ==
  ASSUME NEW deps, NEW reach, NEW v \in DOMAIN deps, NEW t, NEW u, Reaches(deps, reach),
         SearchInv(deps, reach, {}, t),
         u = IF t.index[v] # 0 THEN t ELSE Visit(deps)[v][t]
  PROVE  /\ SearchInv(deps, reach, {}, u) /\ u.index[v] # 0
         /\ \A m \in DOMAIN deps : t.index[m] # 0 => u.index[m] # 0
  <1>1. CASE t.index[v] # 0
    BY <1>1
  <1>2. CASE t.index[v] = 0
    <2>1. MayVisit(deps, reach, {}, v, t)
      BY <1>2 DEF MayVisit
    <2>2. Cardinality(Unseen(deps, t)) <= Cardinality(DOMAIN deps)
      BY FS_Subset DEF Unseen, Reaches
    <2>3. VisitDone(deps, reach, {}, v, t, u)
      <3>1. CallsVisit(deps, reach, Visit(deps), Cardinality(DOMAIN deps))
        BY VisitsVisit
      <3>2. VisitDone(deps, reach, {}, v, t, Visit(deps)[v][t])
        BY <2>1, <2>2, <3>1, Zenon DEF CallsVisit
      <3> QED
        BY <1>2, <3>2
    <2>4. SearchInv(deps, reach, {}, u) /\ Above(t, u) /\ u.index[v] # 0
      BY <2>3 DEF VisitDone
    <2>5. DOMAIN t.index = DOMAIN deps
      BY SearchFacts
    <2> QED
      BY <2>4, <2>5 DEF Above
  <1> QED
    BY <1>1, <1>2

(* The search sees every module.                                           *)
LEMMA AllSearched ==
  ASSUME NEW deps, NEW reach, Reaches(deps, reach), DOMAIN deps \subseteq Nat
  PROVE  /\ SearchInv(deps, reach, {}, SearchAll(DOMAIN deps, deps))
         /\ \A m \in DOMAIN deps : SearchAll(DOMAIN deps, deps).index[m] # 0
  <1> DEFINE U == DOMAIN deps
             sorted == Ascending(U)
             n == Cardinality(U)
             steps == [i \in DOMAIN sorted |-> [t \in Searches(U) |->
                         IF t.index[sorted[i]] # 0 THEN t ELSE Visit(deps)[sorted[i]][t]]]
             start == NothingSeen(U)
             done == SearchAll(U, deps)
  <1>1. n \in Nat /\ DOMAIN sorted = 1 .. n /\ ToSet(sorted) = U
        /\ \A i \in 1 .. n : sorted[i] \in U
    <2>1. /\ sorted \in Seq(U) /\ ToSet(sorted) = U /\ Len(sorted) = n
      BY AscendingIs DEF Reaches
    <2> HIDE DEF sorted, n
    <2> QED
      BY <2>1
  <1>2. done = Through(steps, start)
    BY Zenon DEF SearchAll
  <1>3. /\ \A i \in 1 .. n : \A t \in Searches(U) :
             steps[i][t] = IF t.index[sorted[i]] # 0 THEN t ELSE Visit(deps)[sorted[i]][t]
        /\ Len(steps) = n
    <2> HIDE DEF sorted, n
    <2>1. \A i \in 1 .. n : \A t \in Searches(U) :
            steps[i][t] = IF t.index[sorted[i]] # 0 THEN t ELSE Visit(deps)[sorted[i]][t]
      BY <1>1
    <2>2. steps = [i \in 1 .. n |-> steps[i]]
      BY <1>1
    <2> HIDE DEF steps
    <2> QED
      BY <1>1, <2>1, <2>2, ListLength
  <1> HIDE DEF steps, sorted, n, start, done
  <1>4. PICK f : f[0] = start /\ (\A i \in 1 .. n : f[i] = steps[i][f[i - 1]]) /\ done = f[n]
    <2>1. \E f : GoesThrough(f, steps, start, n)
      BY <1>1, <1>3, ThroughAll
    <2> QED
      BY <1>2, <2>1, Zenon DEF GoesThrough
  <1> DEFINE good(i) == /\ SearchInv(deps, reach, {}, f[i])
                        /\ \A j \in 1 .. i : f[i].index[sorted[j]] # 0
             failing == {i \in 0 .. n : ~ good(i)}
  <1>5. good(0)
    BY <1>4, SearchBegins DEF start
  <1>6. ASSUME NEW i \in 1 .. n, good(i - 1) PROVE good(i)
    <2>1. f[i - 1] \in Searches(U) /\ SearchInv(deps, reach, {}, f[i - 1])
      BY <1>6, SearchFacts
    <2>2. f[i] = IF f[i - 1].index[sorted[i]] # 0 THEN f[i - 1]
                 ELSE Visit(deps)[sorted[i]][f[i - 1]]
      BY <1>3, <1>4, <2>1
    <2>3. /\ SearchInv(deps, reach, {}, f[i]) /\ f[i].index[sorted[i]] # 0
          /\ \A m \in U : f[i - 1].index[m] # 0 => f[i].index[m] # 0
      <3>1. PICK v \in U : v = sorted[i]
        BY <1>1
      <3>2. PICK t : t = f[i - 1]
        OBVIOUS
      <3>3. PICK u : u = f[i]
        OBVIOUS
      <3>4. SearchInv(deps, reach, {}, t) /\ u = IF t.index[v] # 0 THEN t ELSE Visit(deps)[v][t]
        BY <2>1, <2>2, <3>1, <3>2, <3>3
      <3>5. /\ SearchInv(deps, reach, {}, u) /\ u.index[v] # 0
            /\ \A m \in U : t.index[m] # 0 => u.index[m] # 0
        BY <3>4, OuterTurn
      <3> QED
        BY <3>1, <3>2, <3>3, <3>5
    <2>4. ASSUME NEW j \in 1 .. i PROVE f[i].index[sorted[j]] # 0
      <3>1. CASE j = i
        BY <2>3, <3>1
      <3>2. CASE j # i
        <4>1. j \in 1 .. i - 1 /\ j \in 1 .. n
          BY <1>1, <3>2
        <4> QED
          BY <1>1, <1>6, <2>3, <4>1
      <3> QED
        BY <3>1, <3>2
    <2> QED
      BY <2>3, <2>4
  <1> HIDE DEF good
  <1>7. good(n)
    <2> SUFFICES ASSUME failing # {} PROVE FALSE
      BY <1>1
    <2>1. failing \subseteq Nat
      BY <1>1
    <2>2. PICK i \in failing : \A j \in failing : i <= j
      <3> HIDE DEF failing
      <3> QED
        BY <2>1, LeastNatural
    <2>3. i \in 1 .. n /\ i - 1 \in 0 .. n /\ ~ (i <= i - 1)
      BY <1>1, <1>5, <2>2
    <2>4. good(i - 1)
      BY <2>2, <2>3
    <2> QED
      BY <1>6, <2>2, <2>3, <2>4
  <1>8. \A m \in U : \E j \in 1 .. n : sorted[j] = m
    BY <1>1 DEF ToSet
  <1>9. SearchInv(deps, reach, {}, done) /\ \A m \in U : done.index[m] # 0
    BY <1>4, <1>7, <1>8 DEF good
  <1> QED
    BY <1>9 DEF done

(* The components with more than one member hold those modules that reach  *)
(* another and are reached by it.                                          *)
LEMMA LargeComponents ==
  ASSUME NEW deps, NEW reach, Reaches(deps, reach), DOMAIN deps \subseteq Nat
  PROVE  UNION {scc \in SearchAll(DOMAIN deps, deps).sccs : Cardinality(scc) > 1}
           = {m \in DOMAIN deps : \E n \in reach[m] \ {m} : m \in reach[n]}
  <1> DEFINE U == DOMAIN deps
             s == SearchAll(U, deps)
             large == {scc \in s.sccs : Cardinality(scc) > 1}
             looped == {m \in U : \E n \in reach[m] \ {m} : m \in reach[n]}
  <1>1. SearchInv(deps, reach, {}, s) /\ \A m \in U : s.index[m] # 0
    BY AllSearched
  <1> HIDE DEF s
  <1>2. IsSearch(U, s) /\ Stacked(reach, {}, s) /\ Parted(deps, reach, {}, s)
    BY <1>1, SearchFacts
  <1>3. ToSet(s.stack) = {}
    <2>1. DOMAIN s.stack = {}
      BY <1>2, Zenon DEF Stacked
    <2> QED
      BY <2>1 DEF ToSet
  <1>4. Gone(s) = U
    BY <1>1, <1>2, <1>3 DEF Parted
  <1>5. ASSUME NEW m \in U
        PROVE  /\ Class(reach, m) \in s.sccs /\ m \in Class(reach, m)
               /\ IsFiniteSet(Class(reach, m)) /\ Cardinality(Class(reach, m)) \in Nat
    <2>1. PICK scc \in s.sccs : m \in scc
      BY <1>4 DEF Gone
    <2>2. scc = Class(reach, m) /\ scc \subseteq U
      BY <1>2, <2>1 DEF Parted, IsSearch
    <2> QED
      BY <2>1, <2>2, FS_Subset, FS_CardinalityType DEF Reaches
  <1>6. ASSUME NEW m \in U
        PROVE  Cardinality(Class(reach, m)) > 1 <=> \E n \in Class(reach, m) : n # m
    <2>1. CASE \E n \in Class(reach, m) : n # m
      <3>1. PICK n \in Class(reach, m) : n # m
        BY <2>1
      <3>2. {m, n} \subseteq Class(reach, m) /\ IsFiniteSet({m, n}) /\ Cardinality({m, n}) = 2
        <4>1. IsFiniteSet({m}) /\ Cardinality({m}) = 1 /\ n \notin {m} /\ {m, n} = {m} \cup {n}
          BY <3>1, FS_Singleton
        <4>2. IsFiniteSet({m} \cup {n}) /\ Cardinality({m} \cup {n}) = Cardinality({m}) + 1
          BY <4>1, FS_AddElement
        <4> QED
          <5>1. n \in Class(reach, m) /\ m \in Class(reach, m)
            BY <1>5
          <5>2. {m, n} \subseteq Class(reach, m)
            BY <5>1
          <5>3. IsFiniteSet({m, n})
            BY <4>1, <4>2
          <5>4. Cardinality({m, n}) = 2
            BY <4>1, <4>2
          <5> QED
            BY <5>2, <5>3, <5>4
      <3>3. 2 <= Cardinality(Class(reach, m))
        BY <1>5, <3>2, FS_Subset
      <3> QED
        BY <1>5, <2>1, <3>3
    <2>2. CASE ~ \E n \in Class(reach, m) : n # m
      <3>1. Class(reach, m) = {m}
        BY <1>5, <2>2
      <3> QED
        BY <2>2, <3>1, FS_Singleton
    <2> QED
      BY <2>1, <2>2
  <1>7. \A m \in U : (\E n \in Class(reach, m) : n # m) <=> m \in looped
    BY DEF Class
  <1>8. ASSUME NEW m \in UNION large PROVE m \in looped
    <2>1. PICK scc \in s.sccs : m \in scc /\ Cardinality(scc) > 1
      OBVIOUS
    <2>2. m \in U /\ scc = Class(reach, m)
      BY <1>2, <2>1 DEF IsSearch, Parted
    <2> QED
      BY <1>6, <1>7, <2>1, <2>2
  <1>9. ASSUME NEW m \in looped PROVE m \in UNION large
    <2>1. m \in U /\ Class(reach, m) \in s.sccs /\ m \in Class(reach, m)
      BY <1>5
    <2>2. Cardinality(Class(reach, m)) > 1
      BY <1>6, <1>7, <2>1
    <2> QED
      BY <2>1, <2>2
  <1> QED
    BY <1>8, <1>9 DEF s

(* Whom the search finds a module to feed.                                 *)
LEMMA DependentsAre ==
  ASSUME NEW ms, NEW wires \in Seq(ms \X ms), NEW unresolved, NEW m
  PROVE  /\ Dependents(unresolved, wires, m) \in Seq(unresolved)
         /\ \A n : n \in ToSet(Dependents(unresolved, wires, m))
                   <=> n \in unresolved /\ n # m /\ <<m, n>> \in ToSet(wires)
  <1> DEFINE S == {i \in DOMAIN wires : /\ wires[i][1] = m /\ wires[i][2] # m
                                        /\ wires[i][2] \in unresolved}
             fed == Ascending(S)
             d == Dependents(unresolved, wires, m)
  <1>1. S \subseteq DOMAIN wires /\ S \subseteq Nat /\ IsFiniteSet(S)
    <2>1. DOMAIN wires = 1 .. Len(wires) /\ Len(wires) \in Nat /\ S \subseteq DOMAIN wires
      OBVIOUS
    <2>2. IsFiniteSet(DOMAIN wires)
      BY <2>1, FS_Interval
    <2> HIDE DEF S
    <2>3. IsFiniteSet(S)
      BY <2>1, <2>2, FS_Subset
    <2> QED
      BY <2>1, <2>3
  <1>2. d = [k \in DOMAIN fed |-> wires[fed[k]][2]]
    BY Zenon DEF Dependents
  <1>3. \A i \in S : /\ wires[i][2] \in unresolved /\ wires[i][2] # m
                     /\ wires[i] = <<m, wires[i][2]>>
    <2> TAKE i \in S
    <2>1. wires[i] \in ms \X ms
      BY <1>1
    <2> QED
      BY <2>1
  <1>4. ASSUME NEW n \in unresolved, n # m, NEW i \in DOMAIN wires, wires[i] = <<m, n>>
        PROVE  i \in S /\ wires[i][2] = n
    BY <1>4
  <1> HIDE DEF S
  <1>5. fed \in Seq(S) /\ ToSet(fed) = S
    BY <1>1, AscendingIs
  <1> HIDE DEF fed, d
  <1>6. Len(fed) \in Nat /\ DOMAIN fed = 1 .. Len(fed) /\ \A k \in 1 .. Len(fed) : fed[k] \in S
    BY <1>5
  <1>7. d \in Seq(unresolved) /\ DOMAIN d = 1 .. Len(fed)
    BY <1>2, <1>3, <1>6
  <1>8. ToSet(d) = {wires[i][2] : i \in S}
    <2>1. \A k \in 1 .. Len(fed) : d[k] = wires[fed[k]][2]
      BY <1>2, <1>6
    <2>2. \A i \in S : \E k \in 1 .. Len(fed) : fed[k] = i
      BY <1>5, <1>6 DEF ToSet
    <2>3. ToSet(d) = {d[k] : k \in 1 .. Len(fed)}
      BY <1>7 DEF ToSet
    <2>4. ASSUME NEW k \in 1 .. Len(fed) PROVE d[k] \in {wires[i][2] : i \in S}
      BY <1>6, <2>1
    <2>5. ASSUME NEW i \in S PROVE wires[i][2] \in {d[k] : k \in 1 .. Len(fed)}
      <3>1. PICK k \in 1 .. Len(fed) : fed[k] = i
        BY <2>2
      <3>2. d[k] = wires[i][2]
        BY <2>1, <3>1
      <3> QED
        BY <3>2
    <2> QED
      BY <2>3, <2>4, <2>5
  <1>9. \A n : n \in {wires[i][2] : i \in S}
                <=> n \in unresolved /\ n # m /\ <<m, n>> \in ToSet(wires)
    BY <1>1, <1>3, <1>4 DEF ToSet
  <1> QED
    BY <1>7, <1>8, <1>9 DEF d

(* Out of the unresolved no cable leads, and so what they reach along      *)
(* those lists is what lies downstream.                                    *)
LEMMA UnresolvedReach ==
  ASSUME NEW ms, IsFiniteSet(ms), NEW wires \in Seq(ms \X ms), NEW unresolved \in SUBSET ms,
         ClosedUnder(wires, unresolved)
  PROVE  Reaches([m \in unresolved |-> Dependents(unresolved, wires, m)],
                 [m \in unresolved |-> Downstream(ms, wires, m)])
  <1> DEFINE U == unresolved
             deps == [m \in U |-> Dependents(U, wires, m)]
             reach == [m \in U |-> Downstream(ms, wires, m)]
  <1>1. DOMAIN deps = U /\ IsFiniteSet(U)
    BY FS_Subset
  <1>2. deps \in [U -> Seq(U)]
    BY DependentsAre
  <1>3. \A m \in U : \A n : n \in ToSet(deps[m])
                            <=> n \in U /\ n # m /\ <<m, n>> \in ToSet(wires)
    <2> SUFFICES ASSUME NEW m \in U
                 PROVE  \A n : n \in ToSet(deps[m])
                              <=> n \in U /\ n # m /\ <<m, n>> \in ToSet(wires)
      OBVIOUS
    <2>1. deps[m] = Dependents(U, wires, m)
      OBVIOUS
    <2> HIDE DEF deps
    <2>2. \A n : n \in ToSet(Dependents(U, wires, m))
                <=> n \in U /\ n # m /\ <<m, n>> \in ToSet(wires)
      BY DependentsAre
    <2> QED
      BY <2>1, <2>2, Zenon
  <1> DEFINE D(m) == Downstream(ms, wires, m)
  <1>3a. /\ \A m \in ms : m \in D(m)
         /\ \A m, n, p : n \in D(m) /\ p \in D(n) => p \in D(m)
         /\ \A m, X : X \subseteq ms /\ m \in X /\ ClosedUnder(wires, X) => D(m) \subseteq X
    BY DownstreamHas
  <1>3b. \A k \in DOMAIN wires : wires[k][1] \in ms /\ wires[k][2] \in ms
           => wires[k][2] \in D(wires[k][1])
    BY DownstreamHas
  <1>3c. \A m \in U : reach[m] = D(m)
    OBVIOUS
  <1> HIDE DEF D
  <1>4. \A m \in U : reach[m] = D(m) /\ reach[m] \subseteq U
    BY <1>3a, <1>3c
  <1>5. reach \in [U -> SUBSET U]
    BY <1>4
  <1> HIDE DEF deps, reach
  <1>6. ASSUME NEW m \in U PROVE m \in reach[m] /\ ToSet(deps[m]) \subseteq reach[m]
    <2>1. m \in reach[m]
      BY <1>3a, <1>4
    <2>2. ASSUME NEW n \in ToSet(deps[m]) PROVE n \in reach[m]
      <3>0. <<m, n>> \in ToSet(wires)
        BY <1>3, <2>2
      <3>1. PICK i \in DOMAIN wires : wires[i] = <<m, n>>
        BY <3>0 DEF ToSet
      <3>2. wires[i][1] = m /\ wires[i][2] = n /\ m \in ms /\ n \in ms
        BY <1>3, <2>2, <3>1
      <3>3. n \in D(m)
        BY <1>3b, <3>2
      <3> QED
        BY <1>4, <3>3
    <2> QED
      BY <2>1, <2>2
  <1>7. ASSUME NEW m \in U, NEW n \in U, n \in reach[m] PROVE reach[n] \subseteq reach[m]
    BY <1>3a, <1>4, <1>7
  <1>8. ASSUME NEW m \in U, NEW X \in SUBSET U, m \in X, \A n \in X : ToSet(deps[n]) \subseteq X
        PROVE  reach[m] \subseteq X
    <2>1. ASSUME NEW w \in ToSet(wires), w[1] \in X PROVE w[2] \in X
      <3>1. PICK i \in DOMAIN wires : wires[i] = w
        BY DEF ToSet
      <3>2. w \in ms \X ms
        BY <3>1
      <3>3. w = <<w[1], w[2]>> /\ w[2] \in U
        BY <2>1, <3>1, <3>2 DEF ClosedUnder
      <3>4. CASE w[1] = w[2]
        BY <2>1, <3>4
      <3>5. CASE w[1] # w[2]
        <4>1. w[2] \in ToSet(deps[w[1]])
          BY <1>3, <2>1, <3>3, <3>5
        <4> QED
          BY <1>8, <2>1, <4>1
      <3> QED
        BY <3>4, <3>5
    <2>2. ClosedUnder(wires, X) /\ X \subseteq ms
      BY <2>1 DEF ClosedUnder
    <2> QED
      BY <1>3a, <1>4, <1>8, <2>2
  <1>9. Reaches(deps, reach)
    BY <1>1, <1>2, <1>5, <1>6, <1>7, <1>8 DEF Reaches
  <1> QED
    BY <1>9 DEF deps, reach

(* On any finite rack and any wiring, the error names exactly the modules  *)
(* on loops, whichever of the two finds them.                              *)
THEOREM CyclesAlwaysNamed ==
  ASSUME NEW ms, IsFiniteSet(ms), ms \subseteq Nat, NEW wires \in Seq(ms \X ms)
  PROVE  CyclesNamed(ms, wires)
  <1>1. OrdersFound(ms, wires)
    BY BothOrdersFound
  <1>2. ASSUME NEW heap \in BOOLEAN PROVE Verdict(heap, ms, wires).cycle = OnALoop(ms, wires)
    <2>1. CASE Ticks(heap, ms, wires)
      <3>1. Verdict(heap, ms, wires).cycle = {}
        BY <2>1 DEF Verdict
      <3>2. heap = TRUE \/ heap = FALSE
        OBVIOUS
      <3> QED
        BY <1>1, <2>1, <3>1, <3>2 DEF OrdersFound
    <2>2. CASE ~ Ticks(heap, ms, wires)
      <3>1. PICK s : KahnInv(heap, ms, wires, s) /\ s.resolved = Resolution(heap, ms, wires)
        BY KahnEnds
      <3> DEFINE U == ms \ ToSet(s.resolved)
                 deps == [m \in U |-> Dependents(U, wires, m)]
                 reach == [m \in U |-> Downstream(ms, wires, m)]
                 found == UNION {scc \in SearchAll(U, deps).sccs : Cardinality(scc) > 1}
      <3>2. Verdict(heap, ms, wires).cycle = CycleMembers(U, wires)
        BY <2>2, <3>1 DEF Verdict
      <3>3. CycleMembers(U, wires) = found
        BY Zenon DEF CycleMembers
      <3>4. ClosedUnder(wires, U) /\ \A m \in ToSet(s.resolved) : m \notin OnALoop(ms, wires)
        BY <3>1, ResolvedHasNoLoop
      <3>5. DOMAIN deps = U /\ U \subseteq ms /\ U \subseteq Nat
        OBVIOUS
      <3>6. ASSUME NEW m \in U
            PROVE  reach[m] = Downstream(ms, wires, m) /\ reach[m] \subseteq U
        <4>1. reach[m] = Downstream(ms, wires, m)
          OBVIOUS
        <4> HIDE DEF reach, U
        <4>2. Downstream(ms, wires, m) \subseteq U
          BY <3>4, <3>5, DownstreamHas
        <4> QED
          BY <4>1, <4>2
      <3>7. OnALoop(ms, wires) = {m \in U : \E n \in reach[m] \ {m} : m \in reach[n]}
        <4> HIDE DEF reach
        <4>1. OnALoop(ms, wires)
                = {m \in ms : \E n \in Downstream(ms, wires, m) \ {m} : m \in Downstream(ms, wires, n)}
          <5>1. \A m \in ms : Downstream(ms, wires, m) \subseteq ms
            BY DEF Downstream
          <5> QED
            BY <5>1 DEF OnALoop
        <4>2. OnALoop(ms, wires) \subseteq U
          BY <3>4, <4>1
        <4> HIDE DEF U
        <4> QED
          BY <3>5, <3>6, <4>1, <4>2
      <3>8. Reaches(deps, reach)
        BY <3>4, <3>5, UnresolvedReach
      <3> HIDE DEF U, deps, reach
      <3>9. found = {m \in U : \E n \in reach[m] \ {m} : m \in reach[n]}
        <4>1. UNION {scc \in SearchAll(DOMAIN deps, deps).sccs : Cardinality(scc) > 1}
                = {m \in DOMAIN deps : \E n \in reach[m] \ {m} : m \in reach[n]}
          BY <3>5, <3>8, LargeComponents
        <4> QED
          BY <3>5, <4>1
      <3> QED
        BY <3>2, <3>3, <3>7, <3>9
    <2> QED
      BY <2>1, <2>2
  <1> QED
    BY <1>1, <1>2 DEF CyclesNamed, ComputeTickOrder, CheckPatchCycles

(* Every wiring that is drawn is one of pairs of modules.                   *)
LEMMA DrawnIsWiring ==
  ASSUME NEW q \in DrawnWires
  PROVE  q \in Seq(Modules \X Modules)
  <1>1. PICK k \in 0 .. MaxWires : q \in [1 .. k -> Modules \X Modules]
    BY DEF DrawnWires, BoundedSeq, SeqOf
  <1>2. k \in Nat
    OBVIOUS
  <1> QED
    BY <1>1, <1>2

(* Beside a rack of any size, whatever is drawn: both algorithms give the  *)
(* order, or an error that names the modules on loops and no others.       *)
THEOREM DrawnCyclesAreNamed == BothSpec => []DrawnCyclesNamed
  <1> DEFINE Drawn == drawn \in Seq(Modules \X Modules)
  <1>1. BothInit => Drawn
    BY DrawnIsWiring DEF BothInit
  <1>2. Drawn /\ [BothNext]_<<vars, viewVars, drawn>> => Drawn'
    BY DEF BothNext
  <1>3. Drawn => DrawnCyclesNamed
    <2>1. IsFiniteSet(Modules) /\ Modules \subseteq Nat
      BY JacksAssumption, NamesAssumption DEF JacksAssumption, NamesAssumption
    <2> QED
      BY <2>1, CyclesAlwaysNamed DEF DrawnCyclesNamed
  <1> QED
    BY <1>1, <1>2, <1>3, PTL DEF BothSpec
=============================================================================
