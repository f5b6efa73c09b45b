------------------------------ MODULE GraphView ------------------------------
(***************************************************************************)
(* The queries of oxurack-graph's GraphView over the graph it keeps, and   *)
(* over the ports of the world.  Labels are fetched as they are asked for  *)
(* and are not part of any answer here.                                    *)
(***************************************************************************)
EXTENDS RackGraph, TickOrder

(* Names stand for their place in the order of names. *)
NamesAssumption == Modules \subseteq Nat
ASSUME NamesAssumption

GraphEdges == Range(graph.edges)
PortsIn(ms) == {p \in Ports : Owner[p] \in ms}
CableWith(id) == CHOOSE c \in cables : c.id = id

(* modules() and module_by_name() *)
ModuleRoster == Ascending(graph.nodes)
ModuleByName(m) == IF m \in graph.by_instance_name /\ m \in graph.nodes THEN {m} ELSE {}

(* cables(): by source, target, ordinal, then entity. *)
ShownBefore(c, d) ==
  \/ c.source < d.source
  \/ c.source = d.source /\ c.target < d.target
  \/ c.source = d.source /\ c.target = d.target /\ OlderThan(c, d)
AsShown(cs) == {p \in cs \X cs : ShownBefore(p[1], p[2])}
\* Mutant: cables are shown by the entity, as a restart numbers them anew.
ShownByEntity(es) ==
  LET cs == {CableWith(e.cable) : e \in es} IN InOrder(cs, {p \in cs \X cs : p[1].id > p[2].id})
Shown(es) == LET cs == {CableWith(e.cable) : e \in es} IN InOrder(cs, AsShown(cs))
CableRoster == Shown(GraphEdges)

(* incoming_cables(), outgoing_cables(), upstream_of(), downstream_of() *)
Incoming(m) == {e \in GraphEdges : e.target = m}
Outgoing(m) == {e \in GraphEdges : e.source = m}
IncomingCables(m) == Shown(Incoming(m))
OutgoingCables(m) == Shown(Outgoing(m))
UpstreamOf(m) == {e.source : e \in Incoming(m)}
DownstreamOf(m) == {e.target : e \in Outgoing(m)}

(* downstream_closure() and upstream_closure(): a search along the edges,  *)
(* or against them, that begins at m.                                      *)
Beside(m, forward) == IF forward THEN DownstreamOf(m) ELSE UpstreamOf(m)
Searching(m, forward) ==
  LET reached[i \in 0 .. Cardinality(graph.nodes)] ==
        IF i = 0 THEN {m} \cap graph.nodes
        ELSE reached[i - 1] \cup UNION {Beside(n, forward) : n \in reached[i - 1]}
  IN  reached
Searched(m, forward) == Searching(m, forward)[Cardinality(graph.nodes)]
DownstreamClosure(m) == Searched(m, TRUE)
UpstreamClosure(m) == Searched(m, FALSE)

(* dangling_modules() and dangling_ports() *)
DanglingModules == {m \in graph.nodes : Incoming(m) = {} /\ Outgoing(m) = {}}
DanglingPorts ==
  LET ends == {CableWith(e.cable) : e \in GraphEdges} IN
  {p \in PortsIn(graph.nodes) :
     p \notin (IF Direction[p] = "Output" THEN {c.source : c \in ends} ELSE {c.target : c \in ends})}

(* compatible_inputs_for() *)
CompatibleInputsFor(p) ==
  {q \in PortsIn(graph.nodes) : Present(p) /\ Direction[q] = "Input" /\ Kind[q] = Kind[p]}

(* cycles(): the components of more than one module, and the modules that  *)
(* feed themselves.  topological_order() fails on either.                  *)
Cycles ==
  LET onWayOf(m) == {n \in UpstreamClosure(m) : n \in DownstreamClosure(m)} IN
  {onWayOf(m) : m \in {n \in graph.nodes : onWayOf(n) # {n} \/ n \in DownstreamOf(n)}}
TopologicalOrderExists == Cycles = {}
-----------------------------------------------------------------------------
(* Properties. *)

Settled == mail = NoMail /\ ~panicked
WorldWires ==
  LET sorted == InOrder(cables, Ages(cables))
  IN  [i \in DOMAIN sorted |-> <<Owner[sorted[i].source], Owner[sorted[i].target]>>]

(* What the queries answer from the graph is what the cables of the world  *)
(* say: the closures are reachability, a dangling port has no cable, an    *)
(* input that takes a plain cable is offered, the rosters leave nothing    *)
(* out, and the k-th cable shown between two ports is the one that         *)
(* unpatch() calls occurrence k.  The only cycles the view can name are    *)
(* modules patched into themselves: live edits and patch files let no      *)
(* other arise.                                                            *)
AnswersAgree ==
  Settled =>
    /\ \A m \in modules :
         /\ DownstreamClosure(m) = Downstream(modules, WorldWires, m)
         /\ UpstreamClosure(m) = {n \in modules : m \in DownstreamClosure(n)}
         /\ UpstreamOf(m) = {n \in modules : m \in DownstreamOf(n)}
         /\ m \in DanglingModules <=> Incident(m) = {}
         /\ ToSet(IncomingCables(m)) \cup ToSet(OutgoingCables(m)) = Incident(m)
    /\ DanglingPorts =
         {p \in Ports : Present(p) /\ (IF Direction[p] = "Output" THEN by_source[p] ELSE by_target[p]) = {}}
    /\ \A e \in JackPairs : Present(e[1]) /\ Present(e[2]) =>
         (e[2] \in CompatibleInputsFor(e[1]) <=> Accepts("none", Kind[e[1]], Kind[e[2]]))
    /\ ToSet(ModuleRoster) = modules /\ \A m \in Modules : ModuleByName(m) = {m} \cap modules
    /\ ToSet(CableRoster) = cables
    /\ LET roster == CableRoster IN
       \A i \in DOMAIN roster :
         LET alike == Between(roster[i].source, roster[i].target) IN
         Cardinality({j \in 1 .. i - 1 : roster[j] \in alike})
           = Cardinality({d \in alike : OlderThan(d, roster[i])})
    /\ Cycles = {{m} : m \in {n \in modules : \E c \in cables : Ends(c) = {n}}}
    /\ Ticks(TRUE, modules, WorldWires)
=============================================================================
