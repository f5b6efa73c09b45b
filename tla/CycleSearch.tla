----------------------------- MODULE CycleSearch -----------------------------
(***************************************************************************)
(* The verdict of compute_tick_order and check_patch_cycles on any wiring: *)
(* an order, or the modules to name in the error, which are those that     *)
(* Tarjan's search finds on cycles among the modules left unresolved.      *)
(***************************************************************************)
EXTENDS TickOrder

(* dependents: whom m feeds among the unresolved, a parallel cable once    *)
(* more each, in the order of the cables.  A cable from m to itself is     *)
(* skipped.                                                                *)
Dependents(unresolved, wires, m) ==
  LET fed == Ascending({i \in DOMAIN wires : /\ wires[i][1] = m /\ wires[i][2] # m
                                             /\ wires[i][2] \in unresolved})
  IN  [k \in DOMAIN fed |-> wires[fed[k]][2]]

(* find_cycle_members and find_patch_cycle_members.  Index 0 is not yet    *)
(* visited.                                                                *)
Searches(unresolved) ==
  [counter : Nat, stack : Seq(unresolved), sccs : SUBSET SUBSET unresolved,
   index : [unresolved -> Nat], low : [unresolved -> Nat]]

LowestOf(a, b) == IF a < b THEN a ELSE b

Entered(v, s) ==
  [s EXCEPT !.counter = @ + 1, !.stack = Append(@, v),
            !.index[v] = s.counter, !.low[v] = s.counter]

(* The component of v: all that lies above it on the stack. *)
\* Mutant: a component is popped down to v without v.
ClosedAbove(v, s) ==
  LET at == CHOOSE i \in DOMAIN s.stack : s.stack[i] = v IN
  [s EXCEPT !.stack = SubSeq(@, 1, at - 1),
            !.sccs = @ \cup {ToSet(SubSeq(s.stack, at + 1, Len(s.stack)))}]
Closed(v, s) ==
  LET at == CHOOSE i \in DOMAIN s.stack : s.stack[i] = v IN
  [s EXCEPT !.stack = SubSeq(@, 1, at - 1),
            !.sccs = @ \cup {ToSet(SubSeq(s.stack, at, Len(s.stack)))}]

(* What one loop after another makes of a search. *)
Through(steps, s) ==
  LET after[i \in 0 .. Len(steps)] == IF i = 0 THEN s ELSE steps[i][after[i - 1]]
  IN  after[Len(steps)]

(* One dependent in the loop of visit(): a new one is visited in turn. *)
Examined(visit, v, w, t) ==
  IF t.index[w] = 0
  THEN LET u == visit[w][t] IN [u EXCEPT !.low[v] = LowestOf(@, u.low[w])]
  ELSE IF w \in ToSet(t.stack) THEN [t EXCEPT !.low[v] = LowestOf(@, t.index[w])]
  ELSE t

(* The body of visit(), given what the calls it makes do. *)
Visited(visit, deps, v, s) ==
  LET examine == [i \in DOMAIN deps[v] |->
                    [t \in Searches(DOMAIN deps) |-> Examined(visit, v, deps[v][i], t)]]
      done == Through(examine, Entered(v, s))
  IN  IF done.low[v] = done.index[v] THEN Closed(v, done) ELSE done

(* Calls of visit() nest no deeper than there are modules to enter: within *)
(* depth k there is room for k of them.                                    *)
Visiting(deps) ==
  LET visit[k \in 0 .. Cardinality(DOMAIN deps)] ==
        [v \in DOMAIN deps |-> [s \in Searches(DOMAIN deps) |->
           IF k = 0 THEN s ELSE Visited(visit[k - 1], deps, v, s)]]
  IN  visit
Visit(deps) == Visiting(deps)[Cardinality(DOMAIN deps)]

NothingSeen(unresolved) ==
  [counter |-> 1, stack |-> <<>>, sccs |-> {},
   index |-> [m \in unresolved |-> 0], low |-> [m \in unresolved |-> 0]]

SearchAll(unresolved, deps) ==
  LET sorted == Ascending(unresolved) IN
  Through([i \in DOMAIN sorted |->
             [t \in Searches(unresolved) |->
                IF t.index[sorted[i]] # 0 THEN t ELSE Visit(deps)[sorted[i]][t]]],
          NothingSeen(unresolved))

CycleMembers(unresolved, wires) ==
  LET deps == [m \in unresolved |-> Dependents(unresolved, wires, m)]
  IN  UNION {scc \in SearchAll(unresolved, deps).sccs : Cardinality(scc) > 1}

(* compute_tick_order (heap) and check_patch_cycles (no heap). *)
Verdict(heap, ms, wires) ==
  LET order == Resolution(heap, ms, wires) IN
  IF Ticks(heap, ms, wires)
  THEN [ok |-> TRUE, order |-> order, cycle |-> {}]
  ELSE [ok |-> FALSE, order |-> <<>>,
        cycle |-> CycleMembers(ms \ ToSet(order), wires)]
ComputeTickOrder(ms, wires) == Verdict(TRUE, ms, wires)
CheckPatchCycles(ms, wires) == Verdict(FALSE, ms, wires)
-----------------------------------------------------------------------------
(* Properties. *)

(* On any wiring at all both algorithms give the order, and the error of   *)
(* either names the modules on loops and none that are merely downstream   *)
(* of one.                                                                 *)
CyclesNamed(ms, wires) ==
  /\ OrdersFound(ms, wires)
  /\ ComputeTickOrder(ms, wires).cycle = OnALoop(ms, wires)
  /\ CheckPatchCycles(ms, wires).cycle = OnALoop(ms, wires)
=============================================================================
