------------------------------ MODULE MCGraph ------------------------------
(***************************************************************************)
(* A small instance of GraphView: module 1 has an output, 2 an input and   *)
(* two outputs, 3 an output between two inputs.  Beside the rack, which    *)
(* rests then, every short sequence of wires is drawn for the pure         *)
(* algorithms.                                                             *)
(***************************************************************************)
EXTENDS GraphView, CycleSearch

CONSTANT MaxWires   \* wires drawn: a bound
VARIABLE drawn

GraphOwner == <<1, 2, 2, 3, 3>>
GraphDirection == <<"Output", "Input", "Output", "Input", "Output">>
GraphKind == <<"Float", "Float", "Float", "Float", "Bipolar">>
GraphPolicy == <<"Reject", "Average", "Reject", "LastWins", "Reject">>

Wire(s, t) == [source |-> s, target |-> t, transform |-> "none"]
GraphPatches ==
  {[modules |-> {1, 2, 3}, cables |-> <<Wire(3, 4), Wire(1, 4)>>],
   [modules |-> {2, 3}, cables |-> <<>>]}

DrawnWires == BoundedSeq(Modules \X Modules, MaxWires)
BothInit == GraphInit /\ drawn \in DrawnWires
BothNext == drawn = <<>> /\ GraphNext /\ UNCHANGED drawn
BothSpec == BothInit /\ [][BothNext]_<<vars, viewVars, drawn>>

(* See CyclesNamed.  What is drawn stays, so once is enough: at the start. *)
DrawnCyclesNamed == modules = {} /\ spawned = 0 => CyclesNamed(Modules, drawn)
=============================================================================
