------------------------------ MODULE MCCables ------------------------------
(***************************************************************************)
(* Small instances of Cables.  Module 1 feeds 2, and 2 and 3 may feed each *)
(* other or themselves:                                                    *)
(*   1: output 1 (Float)                                                   *)
(*   2: input 2 (Float, Average), output 3 (Float)                         *)
(*   3: input 4 (Bipolar, Reject), input 5 (Float, LastWins),              *)
(*      output 6 (Float)                                                   *)
(***************************************************************************)
EXTENDS Cables

MCOwner == <<1, 2, 2, 3, 3, 3>>
MCDirection == <<"Output", "Input", "Output", "Input", "Input", "Output">>
MCKind == <<"Float", "Float", "Float", "Bipolar", "Float", "Float">>
MCPolicy == <<"Reject", "Average", "Reject", "Reject", "LastWins", "Reject">>

Wire(s, t, x) == [source |-> s, target |-> t, transform |-> x]
All == {1, 2, 3}

(* Legal files: parallel cables whose order in the file is not the order   *)
(* of their ports, a cable whose transform never gives a value, a module   *)
(* on its own.                                                             *)
ParallelPatch == [modules |-> All,
  cables |-> <<Wire(3, 5, "invert"), Wire(1, 5, "none")>>]
SilentPatch == [modules |-> All, cables |-> <<Wire(1, 5, "gate_to_float"), Wire(1, 2, "none")>>]
LonePatch == [modules |-> {2}, cables |-> <<>>]
(* Files validate_patch refuses: a cycle, two cables into a Reject input.  *)
CyclicPatch == [modules |-> All, cables |-> <<Wire(3, 5, "none"), Wire(6, 2, "none")>>]
CrowdedPatch == [modules |-> All, cables |-> <<Wire(1, 4, "unipolar"), Wire(3, 4, "unipolar")>>]
(* Files it accepts: a Bipolar value into a mean of floats; a cable that   *)
(* reads an input and writes an output.                                    *)
MixedPatch == [modules |-> All, cables |-> <<Wire(1, 2, "none"), Wire(3, 2, "unipolar")>>]
BackwardPatch == [modules |-> All, cables |-> <<Wire(2, 1, "none")>>]

MCPatches == {ParallelPatch, SilentPatch, LonePatch, CyclicPatch, CrowdedPatch}
MixedPatches == {LonePatch, MixedPatch}
BackwardPatches == {LonePatch, BackwardPatch}
=============================================================================
