------------------------------- MODULE Cables -------------------------------
(***************************************************************************)
(* The patch graph as the ECS world holds it: cable entities with          *)
(* ordinals, the CableIndex, and the propagation order that is cached      *)
(* behind a dirty flag and rebuilt by the first sample after an edit.      *)
(* Live edits, module removal, restart and load come between samples.      *)
(***************************************************************************)
EXTENDS Jacks, SequencesExt

CONSTANTS
  Patches,     \* patch files, valid or not: [modules, cables]
  Offered,     \* the transforms live connections ask for: a bound
  MaxSpawns    \* cable entities of one lifetime: a bound

VARIABLES
  modules,     \* PatchHandle::modules
  cables,      \* the cable entities
  spawned,     \* cable entities this world has made
  by_source,   \* CableIndex::by_source
  by_target,   \* CableIndex::by_target
  order,       \* PropagationOrder::cables
  dirty,       \* PropagationOrderDirty
  current,     \* CurrentValue of every port
  reply        \* the occurrence the last connect_cable returned

(* A patch file names modules and ports of the installed types. *)
Wires == [source : Ports, target : Ports, transform : Transforms]
PatchesAssumption ==
  \A patch \in Patches : patch.modules \subseteq Modules /\ patch.cables \in Seq(Wires)
ASSUME PatchesAssumption

graphVars == <<modules, cables, spawned, by_source, by_target>>
vars == <<graphVars, order, dirty, current, reply>>

Cable == [id : Nat, source : Ports, target : Ports, transform : Transforms, ordinal : Nat]

(* CableOrder, ties broken by entity. *)
OlderThan(c, d) == c.ordinal < d.ordinal \/ (c.ordinal = d.ordinal /\ c.id < d.id)

(* The key of rebuild_propagation_order: target, then source, then ordinal,*)
(* then entity.                                                            *)
PropagatesBefore(c, d) ==
  \/ c.target < d.target
  \/ c.target = d.target /\ c.source < d.source
  \/ c.target = d.target /\ c.source = d.source /\ OlderThan(c, d)

Propagation == {e \in cables \X cables : PropagatesBefore(e[1], e[2])}

RebuiltOrder ==
  LET sorted == InOrder(cables, Propagation)
  IN  [i \in DOMAIN sorted |-> sorted[i].id]

Init ==
  /\ modules = {} /\ cables = {} /\ spawned = 0
  /\ by_source = [p \in Ports |-> {}] /\ by_target = [p \in Ports |-> {}]
  /\ order = <<>> /\ dirty = TRUE
  /\ current = [p \in Ports |-> Silence]
  /\ reply = 0
-----------------------------------------------------------------------------
(* check_patch_cycles: modules whose feeders are all resolved are resolved *)
(* in turn; a cycle is what remains.  Cables within a module do not count. *)
Edges(cs) == {<<Owner[c.source], Owner[c.target]>> : c \in cs}
\* Mutant: a module is resolved when one of its feeders is.
ResolvableEarly(ms, edges, done) ==
  {m \in ms : (\E n \in ms \ {m} : <<n, m>> \in edges)
                => \E n \in ms \ {m} : <<n, m>> \in edges /\ n \in done}
Resolvable(ms, edges, done) ==
  {m \in ms : \A n \in ms \ {m} : <<n, m>> \in edges => n \in done}
Resolved(ms, edges) ==
  LET resolved[i \in 0 .. Cardinality(ms)] ==
        IF i = 0 THEN {} ELSE Resolvable(ms, edges, resolved[i - 1])
  IN  resolved
CycleFree(ms, cs) == Resolved(ms, Edges(cs))[Cardinality(ms)] = ms

FanIn(cs, p) == {c \in cs : c.target = p}

(* validate_patch, as far as cables go: it looks at neither the direction  *)
(* of the ports nor the result of a transform.                             *)
Valid(ms, cs) ==
  /\ \A c \in cs : {Owner[c.source], Owner[c.target]} \subseteq ms
  /\ \A c \in cs : AcceptsLoaded(c.transform, Kind[c.source], Kind[c.target])
  /\ \A p \in Ports : Cardinality(FanIn(cs, p)) > 1 =>
       Policy[p] # "Reject" /\ IsValidFor(Policy[p], Kind[p])
  /\ CycleFree(ms, cs)

(* apply_patch_to_world in a fresh App: one entity and one ordinal per     *)
(* cable of the patch, in the order of the file.                           *)
Entity(wire, i) == [id |-> i, source |-> wire.source, target |-> wire.target,
                    transform |-> wire.transform, ordinal |-> i - 1]
Spawned(list) == {Entity(list[i], i) : i \in DOMAIN list}

Apply(ms, cs, count) ==
  /\ Valid(ms, cs)
  /\ modules' = ms
  /\ cables' = cs
  /\ spawned' = count
  /\ by_source' = [p \in Ports |-> {c.id : c \in {d \in cs : d.source = p}}]
  /\ by_target' = [p \in Ports |-> {c.id : c \in FanIn(cs, p)}]
  /\ order' = <<>>
  /\ dirty' = TRUE
  /\ current' = [p \in Ports |-> Silence]
  /\ UNCHANGED reply

Load(patch) == Apply(patch.modules, Spawned(patch.cables), Len(patch.cables))

(* restart(): the snapshot lists the cables in propagation order, and each *)
(* comes back as the entity of its place in that list.                     *)
Ahead(c) == {d \in cables : PropagatesBefore(d, c)}
Rank(c) == Cardinality(Ahead(c)) + 1
Snapshot == {Entity(c, Rank(c)) : c \in cables}
Restart == Apply(modules, Snapshot, Cardinality(cables))
-----------------------------------------------------------------------------
(* Live edits. *)

Present(p) == Owner[p] \in modules

(* prepare_cable *)
NextOrdinal ==
  IF cables = {} THEN 0
  ELSE 1 + CHOOSE n \in {c.ordinal : c \in cables} : \A c \in cables : c.ordinal <= n

ConnectCable(s, t, transform) ==
  LET cable == [id |-> spawned + 1, source |-> s, target |-> t,
                transform |-> transform, ordinal |-> NextOrdinal] IN
  /\ spawned < MaxSpawns
  /\ Present(s) /\ Present(t)
  /\ Direction[s] = "Output" /\ Direction[t] = "Input"
  /\ Accepts(transform, Kind[s], Kind[t])
  /\ IsValidFor(Policy[t], Kind[t])
  /\ Policy[t] = "Reject" => FanIn(cables, t) = {}
  /\ CycleFree(modules, cables \cup {cable})
  /\ cables' = cables \cup {cable}
  /\ spawned' = spawned + 1
  /\ by_source' = [by_source EXCEPT ![s] = @ \cup {cable.id}]
  /\ by_target' = [by_target EXCEPT ![t] = @ \cup {cable.id}]
  /\ dirty' = TRUE
  /\ reply' = Cardinality({c \in cables : c.source = s /\ c.target = t})
  /\ UNCHANGED <<modules, order, current>>

(* commit_disconnect_cable of every cable of cs *)
\* Mutant: only the target side of the index is kept up to date.
UnindexedTargetOnly(cs, idx) == IF idx = by_target THEN [p \in Ports |-> idx[p] \ {c.id : c \in cs}] ELSE idx
Unindexed(cs, idx) == [p \in Ports |-> idx[p] \ {c.id : c \in cs}]
\* Mutant: an edit leaves the cached order standing.
DirtyAfterNoEdit(cs) == dirty
DirtyAfter(cs) == dirty \/ cs # {}

Unplug(cs) ==
  /\ cables' = cables \ cs
  /\ by_source' = Unindexed(cs, by_source)
  /\ by_target' = Unindexed(cs, by_target)

(* disconnect_cable: the occurrence counts the cables between the two      *)
(* ports by ordinal, then by entity.                                       *)
Between(s, t) == {c \in cables : c.source = s /\ c.target = t}
DisconnectCable(s, t, k) ==
  /\ Present(s) /\ Present(t)
  /\ \E c \in Between(s, t) :
       /\ Cardinality({d \in Between(s, t) : OlderThan(d, c)}) = k
       /\ Unplug({c})
       /\ dirty' = DirtyAfter({c})
  /\ UNCHANGED <<modules, spawned, order, current, reply>>

(* prepare_module_removal refuses a module whose incident cables and index *)
(* entries disagree.                                                       *)
Incident(m) == {c \in cables : m \in {Owner[c.source], Owner[c.target]}}
IndexAgreesAt(m) ==
  /\ \A c \in Incident(m) : c.id \in by_source[c.source] /\ c.id \in by_target[c.target]
  /\ \A p \in {q \in Ports : Owner[q] = m} :
       /\ \A i \in by_source[p] : \E c \in Incident(m) : c.id = i /\ c.source = p
       /\ \A i \in by_target[p] : \E c \in Incident(m) : c.id = i /\ c.target = p

RemoveModule(m) ==
  /\ m \in modules
  /\ IndexAgreesAt(m)
  /\ Unplug(Incident(m))
  /\ modules' = modules \ {m}
  /\ dirty' = TRUE
  /\ current' = [p \in Ports |-> IF Owner[p] = m THEN Silence ELSE current[p]]
  /\ UNCHANGED <<spawned, order, reply>>
-----------------------------------------------------------------------------
(* One sample, Produce to MergeInputs.  The edits need exclusive access,   *)
(* so none falls between the phases.                                       *)

\* Mutant: any order once computed is taken for good.
UsedOrderOnceComputed == IF order = <<>> THEN RebuiltOrder ELSE order
UsedOrder == IF dirty THEN RebuiltOrder ELSE order

(* propagate_cables_system: entries whose cable is gone are skipped, and   *)
(* so are transforms that give no value.                                   *)
Reaching(p) == {c \in cables : c.target = p /\ Carries(c.source, c.transform)}
ReachingBy(ids, p) ==
  LET alive == {i \in DOMAIN ids : \E c \in Reaching(p) : c.id = ids[i]}
      places == InOrder(alive, Rising(alive))
      cable(n) == CHOOSE c \in cables : c.id = ids[places[n]]
  IN  [n \in DOMAIN places |-> Contribution(cable(n).source, cable(n).transform)]
Contributions(p) == ReachingBy(UsedOrder, p)

(* consume_ports_system: an input without contributions holds its value.   *)
Sample ==
  /\ order' = UsedOrder
  /\ dirty' = FALSE
  /\ current' = [p \in Ports |->
                   IF Direction[p] = "Input" /\ Contributions(p) # <<>>
                   THEN Merged(Policy[p], Contributions(p)) ELSE current[p]]
  /\ UNCHANGED <<graphVars, reply>>

Next ==
  \/ \E patch \in Patches : Load(patch)
  \/ Restart
  \/ \E s, t \in Ports, transform \in Offered : ConnectCable(s, t, transform)
  \/ \E s, t \in Ports : \E k \in 0 .. Cardinality(Between(s, t)) : DisconnectCable(s, t, k)
  \/ \E m \in Modules : RemoveModule(m)
  \/ Sample

Spec == Init /\ [][Next]_vars
-----------------------------------------------------------------------------
(* Properties. *)

(* The types of the state. *)
Given == [source : Ports, kind : ValueKinds]
TypeOK ==
  /\ modules \subseteq Modules
  /\ cables \subseteq Cable
  /\ spawned \in Nat /\ \A c \in cables : c.id \in 1 .. spawned
  /\ by_source \in [Ports -> SUBSET (1 .. spawned)]
  /\ by_target \in [Ports -> SUBSET (1 .. spawned)]
  /\ order \in Seq(1 .. spawned)
  /\ dirty \in BOOLEAN
  /\ \A p \in Ports : current[p] = Silence \/ current[p] \in Seq(Given)
  /\ reply \in Nat

(* The cached order is never stale: whenever the flag is clear, the cached *)
(* order is what a rebuild would give.                                     *)
OrderNeverStale == ~dirty => order = RebuiltOrder

(* CableIndex and the cable entities agree, so the removal of a module is  *)
(* never refused.                                                          *)
RemovalNeverRefused == \A m \in modules : IndexAgreesAt(m)

(* What live edits make of a loaded patch can always be snapshotted and    *)
(* loaded again: restart() does not fail on validation.                    *)
RestartNeverRefused == Valid(modules, Snapshot)

(* An input of policy Reject has one feeder at most and, live or loaded,   *)
(* the modules can be put in an order in which each comes after its        *)
(* feeders.                                                                *)
GraphIsLegal ==
  /\ \A p \in Ports : Policy[p] = "Reject" => Cardinality(FanIn(cables, p)) <= 1
  /\ \A S \in (SUBSET modules) \ {{}} :
       \E m \in S : \A n \in S \ {m} : <<n, m>> \notin Edges(cables)

(* The assertion of apply_merge: the values that meet in a mean, a sum or  *)
(* a maximum are all of the kind of the first.                             *)
MergesOneKind ==
  \A p \in Ports :
    Direction[p] = "Input" /\ Policy[p] \in {"Average", "Sum", "Max"} =>
      \A i, j \in DOMAIN Contributions(p) : Contributions(p)[i].kind = Contributions(p)[j].kind

(* A cable reads from an output port and writes to an input port.          *)
CablesRunForward ==
  \A c \in cables : Direction[c.source] = "Output" /\ Direction[c.target] = "Input"

(* The lines of the Patchbay: the cables between two ports by ordinal.     *)
Strand(cs, e) == {c \in cs : c.source = e[1] /\ c.target = e[2]}
Ages(cs) == {e \in cs \X cs : OlderThan(e[1], e[2])}
LineOf(cs, e) ==
  LET sorted == InOrder(Strand(cs, e), Ages(Strand(cs, e)))
  IN  [i \in DOMAIN sorted |-> sorted[i].transform]
LinesOf(cs) == [e \in Ports \X Ports |-> LineOf(cs, e)]
LoadedLines ==
  {[modules |-> p.modules, lines |-> LinesOf(Spawned(p.cables))] :
     p \in {q \in Patches : Valid(q.modules, Spawned(q.cables))}}

Bay == INSTANCE Patchbay WITH lines <- LinesOf(cables), held <- current,
                              LoadedPatches <- LoadedLines

(* The entity graph implements the patch bay: ordinals, index, dirty flag  *)
(* and cached order are invisible, every sample delivers exactly what is   *)
(* plugged in, in its order, and every returned occurrence is the position *)
(* of the new cable in its line.                                           *)
ImplementsPatchbay == Bay!Spec
=============================================================================
