------------------------------ MODULE TickOrder ------------------------------
(***************************************************************************)
(* The orders of oxurack-core: the one compute_tick_order gives and the    *)
(* one check_patch_cycles resolves modules in, both Kahn's algorithm.      *)
(* Modules are numbers in the order of their names, and cables are a       *)
(* sequence of pairs of modules.                                           *)
(***************************************************************************)
EXTENDS Integers, SequencesExt

(* Names in order. *)
Ascending(S) ==
  [i \in 1 .. Cardinality(S) |-> CHOOSE x \in S : Cardinality({y \in S : y < x}) = i - 1]

(* The cables into n, and those of them that come from m.  Cables from a   *)
(* module to itself are skipped; parallel ones count once each.            *)
Into(wires, n) == {i \in DOMAIN wires : wires[i][2] = n /\ wires[i][1] # n}
Feeding(wires, m, n) == {i \in Into(wires, n) : wires[i][1] = m}

InDegree(ms, wires) == [n \in ms |-> Cardinality(Into(wires, n))]

(* A module is taken from the queue and frees whoever it fed last.  The    *)
(* tick order keeps its queue as a heap by name, the patch check appends   *)
(* what was freed in the order of names.                                   *)
Queued(heap, queue, freed) ==
  IF heap THEN Ascending(ToSet(queue) \cup freed) ELSE queue \o Ascending(freed)

\* Mutant: a parallel cable is counted once when its feeder is taken.
TakenOncePerModule(heap, wires, s) ==
  LET m == Head(s.queue)
      left == [n \in DOMAIN s.degree |->
                 IF Feeding(wires, m, n) = {} THEN s.degree[n] ELSE s.degree[n] - 1]
  IN  [degree |-> left, resolved |-> Append(s.resolved, m),
       queue |-> Queued(heap, Tail(s.queue),
                        {n \in DOMAIN left : s.degree[n] > 0 /\ left[n] = 0})]
Taken(heap, wires, s) ==
  LET m == Head(s.queue)
      left == [n \in DOMAIN s.degree |-> s.degree[n] - Cardinality(Feeding(wires, m, n))]
  IN  [degree |-> left, resolved |-> Append(s.resolved, m),
       queue |-> Queued(heap, Tail(s.queue),
                        {n \in DOMAIN left : s.degree[n] > 0 /\ left[n] = 0})]

Seeded(ms, wires) ==
  [degree |-> InDegree(ms, wires), resolved |-> <<>>,
   queue |-> Ascending({m \in ms : InDegree(ms, wires)[m] = 0})]

Resolving(heap, ms, wires) ==
  LET run[i \in 0 .. Cardinality(ms)] ==
        IF i = 0 THEN Seeded(ms, wires)
        ELSE IF run[i - 1].queue = <<>> THEN run[i - 1]
        ELSE Taken(heap, wires, run[i - 1])
  IN  run
Resolution(heap, ms, wires) == Resolving(heap, ms, wires)[Cardinality(ms)].resolved
Ticks(heap, ms, wires) == Len(Resolution(heap, ms, wires)) = Cardinality(ms)
-----------------------------------------------------------------------------
(* Reference definitions. *)
(* What m reaches along the cables: all that lies in every set with m and  *)
(* with whatever its members feed.                                         *)
ClosedUnder(wires, X) == \A w \in ToSet(wires) : w[1] \in X => w[2] \in X
Downstream(ms, wires, m) ==
  {n \in ms : \A X \in SUBSET ms : m \in X /\ ClosedUnder(wires, X) => n \in X}
OnALoop(ms, wires) ==
  LET fed == [m \in ms |-> Downstream(ms, wires, m)] IN
  {m \in ms : \E n \in fed[m] \ {m} : m \in fed[n]}

(* Each module comes after all that feed it, and at every place the one    *)
(* with the least name of those that could stand there.                    *)
LeastFirst(ms, wires, order) ==
  LET before(i) == {order[j] : j \in 1 .. i - 1}
      mayCome(i) == {n \in ms \ before(i) : \A k \in Into(wires, n) : wires[k][1] \in before(i)}
  IN  /\ ToSet(order) = ms /\ Len(order) = Cardinality(ms)
      /\ \A i \in DOMAIN order : order[i] \in mayCome(i)
                                 /\ \A m \in mayCome(i) : order[i] <= m

(* On any wiring at all both algorithms succeed exactly when no module     *)
(* lies on a loop, and the tick order is the one with the least names      *)
(* first.                                                                  *)
OrdersFound(ms, wires) ==
  /\ Ticks(TRUE, ms, wires) <=> OnALoop(ms, wires) = {}
  /\ Ticks(FALSE, ms, wires) <=> OnALoop(ms, wires) = {}
  /\ Ticks(TRUE, ms, wires) => LeastFirst(ms, wires, Resolution(TRUE, ms, wires))
=============================================================================
