------------------------------- MODULE Jacks --------------------------------
(***************************************************************************)
(* The static side of the patch graph: the ports of the installed modules, *)
(* the cable transforms with the value kinds they take and give, and the   *)
(* merge policies of the input ports.  A value is known by where it came   *)
(* from: the output port and the kind it has after the transform.          *)
(***************************************************************************)
EXTENDS Integers, Sequences, FiniteSets

CONSTANTS
  Modules,     \* instance names
  Ports,       \* ports, numbered in the order of their (module, port) names
  Owner,       \* the module of each port
  Direction,   \* "Input" or "Output"
  Kind,        \* the ValueKind of each port
  Policy,      \* the MergePolicy of each port
  Silence      \* the default value of a port

ValueKinds == {"Float", "Gate", "Bipolar", "Midi", "Raw"}
Policies == {"Reject", "Average", "Sum", "Max", "LastWins"}

(* MergePolicy::is_valid_for *)
IsValidFor(policy, kind) ==
  \/ policy \in {"Reject", "LastWins"}
  \/ policy = "Average" /\ kind \in {"Float", "Bipolar"}
  \/ policy \in {"Sum", "Max"} /\ kind \in {"Float", "Gate", "Bipolar"}

SameKind == {"affine", "invert", "clamp"}
Transforms == SameKind \cup
  {"none", "threshold", "gate_to_float", "unipolar", "bipolarize"}

(* CableTransform::apply: the kinds a cable turns into what; any other     *)
(* combination gives no value.                                             *)
Conversions ==
  (SameKind \X {<<"Float", "Float">>, <<"Bipolar", "Bipolar">>})
  \cup ({"none"} \X {<<k, k>> : k \in ValueKinds})
  \cup {<<"threshold", <<"Float", "Gate">>>>, <<"gate_to_float", <<"Gate", "Float">>>>,
        <<"unipolar", <<"Float", "Bipolar">>>>, <<"bipolarize", <<"Bipolar", "Float">>>>}

Delivers(transform, from, to) == <<transform, <<from, to>>>> \in Conversions

(* validate_transform, the check of a live connection. *)
\* Mutant: the kind of the result is not compared.
AcceptsAnyResult(transform, from, to) == \E k \in ValueKinds : Delivers(transform, from, k)
\* Mutant: a cable without a transform is never checked.
AcceptsUnconverted(transform, from, to) ==
  transform = "none" \/ Delivers(transform, from, to)
Accepts(transform, from, to) ==
  \/ transform = "none" /\ from = to
  \/ transform \in SameKind /\ from \in {"Float", "Bipolar"} /\ to = from
  \/ transform = "threshold" /\ from = "Float" /\ to = "Gate"
  \/ transform = "gate_to_float" /\ from = "Gate" /\ to = "Float"
  \/ transform = "unipolar" /\ from = "Float" /\ to = "Bipolar"
  \/ transform = "bipolarize" /\ from = "Bipolar" /\ to = "Float"

(* The check validate_patch makes of a cable of a patch file: any          *)
(* transform excuses different kinds.                                      *)
AcceptsLoaded(transform, from, to) == from = to \/ transform # "none"

Contribution(source, transform) ==
  [source |-> source,
   kind |-> CHOOSE k \in ValueKinds : Delivers(transform, Kind[source], k)]

(* Does the cable give a value at all? *)
Carries(source, transform) == \E k \in ValueKinds : Delivers(transform, Kind[source], k)

(* apply_merge: what an input makes of the values that reach it, in order. *)
(* A mean, sum or maximum of floats is known by the values it is made of.  *)
Merged(policy, values) ==
  IF policy = "Reject" THEN <<values[1]>>
  ELSE IF policy = "LastWins" THEN <<values[Len(values)]>>
  ELSE values

(* What a live cable may join: an output to an input. *)
JackPairs ==
  {e \in Ports \X Ports : Direction[e[1]] = "Output" /\ Direction[e[2]] = "Input"}

(* The elements of a finite set in the order of a strict total relation,   *)
(* each at the place that the elements before it leave it.                 *)
Earlier(S, R, x) == {y \in S : <<y, x>> \in R}
InOrder(S, R) ==
  [i \in 1 .. Cardinality(S) |-> CHOOSE x \in S : Cardinality(Earlier(S, R, x)) = i - 1]
Rising(S) == {e \in S \X S : e[1] < e[2]}

JacksAssumption ==
  /\ Ports \subseteq Nat /\ IsFiniteSet(Ports) /\ IsFiniteSet(Modules)
  /\ Owner \in [Ports -> Modules]
  /\ Direction \in [Ports -> {"Input", "Output"}]
  /\ Kind \in [Ports -> ValueKinds]
  /\ Policy \in [Ports -> Policies]
ASSUME JacksAssumption
=============================================================================
