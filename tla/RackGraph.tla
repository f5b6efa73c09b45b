------------------------------ MODULE RackGraph ------------------------------
(***************************************************************************)
(* The graph of modules and cables that oxurack-graph keeps beside the ECS *)
(* world.  Every edit of the world leaves a message in one of four queues; *)
(* GraphMaintenance reads them queue by queue, not in the order in which   *)
(* they were written.  A facade call maintains the graph before it         *)
(* returns; an edit made on the world itself waits for the next Update.    *)
(* Modules of one lifetime have names of their own, so a name stands for   *)
(* its entity and its node.  An edge sits at an index petgraph uses again. *)
(***************************************************************************)
EXTENDS Cables

VARIABLES
  graph,      \* RackGraph: nodes, edges by index, and its three maps
  mail,       \* the messages the four handlers have not read
  panicked    \* a handler met an entity it takes for granted

viewVars == <<graph, mail, panicked>>

(* The cables a world can ever hold have indices enough. *)
EdgeIndices == 1 .. MaxSpawns

NoMail == [added |-> {}, removed |-> {}, connected |-> {}, disconnected |-> {}]
EmptyGraph == [nodes |-> {}, edges |-> <<>>, edge_by_entity |-> <<>>, by_instance_name |-> {}]

GraphInit == Init /\ graph = EmptyGraph /\ mail = NoMail /\ panicked = FALSE
-----------------------------------------------------------------------------
(* The four handlers. *)

(* handle_module_added *)
Rostered(g, m) ==
  [g EXCEPT !.nodes = @ \cup m.added, !.by_instance_name = @ \cup m.added]

(* handle_module_removed: the incident edges of both directions leave the  *)
(* map, then the node and its edges go.                                    *)
\* Mutant: only the outgoing edges leave the map.
OutgoingOf(g, m) == {i \in DOMAIN g.edges : g.edges[i].source \in m.removed \cap g.nodes}
IncidentOf(g, m) ==
  {i \in DOMAIN g.edges : {g.edges[i].source, g.edges[i].target} \cap m.removed \cap g.nodes # {}}
Orphaned(g, m) ==
  {i \in DOMAIN g.edges : {g.edges[i].source, g.edges[i].target} \cap m.removed \cap g.nodes # {}}
Retired(g, m) ==
  LET forgotten == {g.edges[i].cable : i \in IncidentOf(g, m)} IN
  [g EXCEPT !.nodes = @ \ m.removed,
            !.by_instance_name = @ \ m.removed,
            !.edges = Restrict(@, DOMAIN @ \ Orphaned(g, m)),
            !.edge_by_entity = Restrict(@, DOMAIN @ \ forgotten)]

(* handle_cable_connected: both ports must still have a parent, and both   *)
(* parents a node.                                                         *)
Ends(c) == {Owner[c.source], Owner[c.target]}
Resolves(g, m, alive) == \A c \in m.connected : Ends(c) \subseteq alive \cap g.nodes

(* The new edges take any indices that are free. *)
Places(g, m) ==
  {f \in [{c.id : c \in m.connected} -> EdgeIndices \ DOMAIN g.edges] :
     \A a, b \in DOMAIN f : f[a] = f[b] => a = b}
CableOf(m, id) == CHOOSE c \in m.connected : c.id = id
EdgeOf(c) == [cable |-> c.id, source |-> Owner[c.source], target |-> Owner[c.target]]
Connected(g, m, f) ==
  [g EXCEPT
     !.edges = [i \in DOMAIN @ \cup {f[a] : a \in DOMAIN f} |->
                  IF i \in DOMAIN @ THEN @[i]
                  ELSE EdgeOf(CableOf(m, CHOOSE a \in DOMAIN f : f[a] = i))],
     !.edge_by_entity = [a \in DOMAIN f \cup DOMAIN @ |-> IF a \in DOMAIN f THEN f[a] ELSE @[a]]]

(* handle_cable_disconnected *)
Disconnected(g, m) ==
  LET known == {c.id : c \in m.disconnected} \cap DOMAIN g.edge_by_entity
      freed == {g.edge_by_entity[a] : a \in known}
  IN  [g EXCEPT !.edges = Restrict(@, DOMAIN @ \ freed),
                !.edge_by_entity = Restrict(@, DOMAIN @ \ known)]

(* The GraphMaintenance schedule, run on a graph with messages m while the *)
(* modules alive have their ports.                                         *)
Maintain(g, m, alive) ==
  LET pruned == Retired(Rostered(g, m), m) IN
  IF Resolves(pruned, m, alive)
  THEN /\ \E f \in Places(pruned, m) : graph' = Disconnected(Connected(pruned, m, f), m)
       /\ mail' = NoMail
       /\ UNCHANGED panicked
  ELSE panicked' = TRUE /\ UNCHANGED <<graph, mail>>
-----------------------------------------------------------------------------
(* What an edit of the world leaves in the queues. *)
NewsOfEdit ==
  [added |-> mail.added,
   removed |-> mail.removed \cup (modules \ modules'),
   connected |-> mail.connected \cup (cables' \ cables),
   disconnected |-> mail.disconnected \cup (cables \ cables')]

(* apply_patch_to_world announces its modules, then its cables. *)
NewsOfLoad == [NoMail EXCEPT !.added = modules', !.connected = cables']

Edit ==
  \/ \E s, t \in Ports, transform \in Offered : ConnectCable(s, t, transform)
  \/ \E s, t \in Ports : \E k \in 0 .. Cardinality(Between(s, t)) : DisconnectCable(s, t, k)
  \/ \E m \in Modules : RemoveModule(m)

NewLife == Restart \/ \E patch \in Patches : Load(patch)

(* patch, unpatch, remove_module and the cable commands of the facade. *)
FacadeEdit == Edit /\ Maintain(graph, NewsOfEdit, modules')

(* load_patch and restart of the facade, which begin with a fresh App. *)
FacadeLoad == NewLife /\ Maintain(EmptyGraph, NewsOfLoad, modules')

(* dispatch_core_command and the functions of topology.rs on the world. *)
RawEdit == Edit /\ mail' = NewsOfEdit /\ UNCHANGED <<graph, panicked>>

(* apply_patch_to_world on a world of its own. *)
RawLoad == NewLife /\ mail' = NewsOfLoad /\ graph' = EmptyGraph /\ UNCHANGED panicked

(* run_graph_maintenance, once every Update. *)
Update == mail # NoMail /\ Maintain(graph, mail, modules) /\ UNCHANGED vars

GraphNext ==
  /\ ~panicked
  /\ FacadeEdit \/ FacadeLoad \/ RawEdit \/ RawLoad \/ Update

GraphSpec == GraphInit /\ [][GraphNext]_<<vars, viewVars>>
-----------------------------------------------------------------------------
(* Properties. *)

(* What the graph will be once its messages are read: every queue was      *)
(* written in the order of the world and is read in the order of the       *)
(* schedule.                                                               *)
Announced ==
  /\ modules = (graph.nodes \cup mail.added) \ mail.removed
  /\ {c.id : c \in cables} =
       (DOMAIN graph.edge_by_entity \cup {c.id : c \in mail.connected})
         \ {c.id : c \in mail.disconnected}

(* Whenever no message waits, on return from every facade call and after   *)
(* every Update, the graph is the world: one node to a module, one edge to *)
(* a cable between the modules its ports belong to, and the map from       *)
(* cables leads to their own edges, although indices are used again.       *)
GraphFollows ==
  mail = NoMail /\ ~panicked =>
    /\ graph.nodes = modules /\ graph.by_instance_name = modules
    /\ DOMAIN graph.edge_by_entity = {c.id : c \in cables}
    /\ \A c \in cables : graph.edge_by_entity[c.id] \in DOMAIN graph.edges
                         /\ graph.edges[graph.edge_by_entity[c.id]] = EdgeOf(c)
    /\ \A i \in DOMAIN graph.edges : \E c \in cables : graph.edge_by_entity[c.id] = i

(* No handler meets a port without a parent or a parent without a node:    *)
(* the expectations of handle_cable_connected.                             *)
MaintenanceNeverPanics == ~panicked
=============================================================================
