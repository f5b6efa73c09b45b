---------------------------- MODULE TuringModule ----------------------------
(***************************************************************************)
(* The Turing machine as a module of the rack (rack.rs): edges of its      *)
(* inputs are consumed in one sample, and the step they made is published  *)
(* in the next.  Parameters change between samples, and a restart spawns   *)
(* the module again from the parameters it can be asked for.               *)
(***************************************************************************)
EXTENDS TuringMachine

CONSTANTS
  Modulations,   \* values of the write_modulation input: a bound
  Values,        \* the values offered to each parameter: a bound
  Seeded,        \* the registers that seeds give: a bound
  MaxChanges     \* parameter changes: a bound

(* What the decoders let through, by parameter (decode_into_candidate).    *)
Scales == PitchSets \X Intervals
Decodable ==
  [write_probability |-> 0 .. Full,
   length |-> ValidLengths, length_position |-> Positions,
   scale |-> Scales, root |-> Intervals, note_min |-> MidiNotes, note_max |-> MidiNotes,
   scale_output_scale |-> Scales, scale_output_root |-> Intervals]

ASSUME ModuleAssumption ==
  /\ Modulations \subseteq Int /\ Seeded \subseteq Registers /\ MaxChanges \in Nat
  /\ \A name \in DOMAIN Values :
       name \in DOMAIN Decodable /\ Values[name] \subseteq Decodable[name]

VARIABLES
  engine,            \* TuringMachineState::engine
  write_base,        \* TuringMachineState::write_base
  write_modulation,  \* TuringMachineState::write_modulation
  previous,          \* previous_clock, previous_reset and previous_move
  pending,           \* TuringMachineState::pending
  ports,             \* the output ports: step, and the last outputs published
  kept,              \* history: steps in a row with a full knob
  fresh,             \* history: no step since the last reset or spawn
  changes            \* parameter changes so far

state == <<engine, write_base, write_modulation, previous, pending>>
vars == <<state, ports, kept, fresh, changes>>

None == [none |-> TRUE]
Levels == [clock : BOOLEAN, reset : BOOLEAN, move : BOOLEAN]
Low == [clock |-> FALSE, reset |-> FALSE, move |-> FALSE]
-----------------------------------------------------------------------------
(* Parameters: what the getters answer, and ConfigCandidate, which starts  *)
(* from it.                                                                *)

\* Mutant: the getter answers with the effective probability.
EffectiveWriteOf(e, base) == e.write
WriteOf(e, base) == base
Parameters(e, base) ==
  [write_probability |-> WriteOf(e, base),
   length |-> LengthOf(e), length_position |-> e.position,
   scale |-> <<e.scale, e.root>>, root |-> e.root,
   note_min |-> e.range[1], note_max |-> e.range[2],
   scale_output_scale |-> <<e.out_scale, e.out_root>>, scale_output_root |-> e.out_root]

(* validate_candidate, of values that each parameter's decoder accepts.    *)
Accepted(c) == c.note_min <= c.note_max

(* apply_candidate: a position overrides a length, a root the scale's own. *)
Apply(e, c, set) ==
  LET Either(name, value, old) == IF name \in set THEN value ELSE old IN
  [e EXCEPT
     !.write = Either("write_probability", c.write_probability, @),
     !.position = Either("length_position", c.length_position,
                         Either("length", NearestPosition(c.length), @)),
     !.scale = Either("scale", c.scale[1], @),
     !.root = Either("root", c.root, Either("scale", c.scale[2], @)),
     !.range = IF set \cap {"note_min", "note_max"} = {} THEN @ ELSE <<c.note_min, c.note_max>>,
     !.out_scale = Either("scale_output_scale", c.scale_output_scale[1], @),
     !.out_root = Either("scale_output_root", c.scale_output_root,
                         Either("scale_output_scale", c.scale_output_scale[2], @))]

(* reconcile_write_probability *)
\* Mutant: the modulation is added to what is in force.
ReconciledAgain(e, base, modulation) == [e EXCEPT !.write = Clamped(@ + modulation, 0, Full)]
Reconciled(e, base, modulation) == [e EXCEPT !.write = Clamped(base + modulation, 0, Full)]

Init ==
  /\ \E register \in Seeded : engine = NewEngine(register)
  /\ write_base = Full \div 2 /\ write_modulation = 0
  /\ previous = Low /\ pending = None
  /\ ports = [step |-> FALSE, last |-> None]
  /\ kept = 0 /\ fresh = TRUE /\ changes = 0
-----------------------------------------------------------------------------
(* produce_turing_machine_outputs *)
\* Mutant: nothing is published while the step port is still high.
ProduceWhenLow ==
  ports' = IF pending = None \/ ports.step THEN [ports EXCEPT !.step = FALSE]
           ELSE [step |-> TRUE, last |-> pending]
Produce ==
  ports' = IF pending = None THEN [ports EXCEPT !.step = FALSE]
           ELSE [step |-> TRUE, last |-> pending]

(* History: a step with a full knob keeps the loop, any other may break it. *)
Counted(e) == IF e.write # Full THEN 0 ELSE IF kept < Width THEN kept + 1 ELSE Width

(* consume_turing_machine_inputs: reset goes before move, move before clock. *)
Consume(inputs, modulation) ==
  LET rises == [i \in DOMAIN inputs |-> inputs[i] /\ ~previous[i]]
      tuned == Reconciled(engine, write_base, modulation)
  IN
  /\ previous' = inputs /\ write_modulation' = modulation
  /\ \/ /\ rises.reset
        /\ engine' = Reset(tuned) /\ pending' = None
        /\ kept' = Width /\ fresh' = TRUE
     \/ /\ ~rises.reset /\ rises.move
        /\ \E bit \in NextBits(tuned) :
             /\ engine' = Moved(tuned, bit) /\ pending' = MoveOutputs(tuned, bit)
             /\ kept' = Counted(tuned) /\ fresh' = FALSE
     \/ /\ ~rises.reset /\ ~rises.move /\ rises.clock
        /\ \E bit \in NextBits(tuned) :
             /\ engine' = Ticked(tuned, bit) /\ pending' = TickOutputs(tuned, bit)
             /\ kept' = Counted(tuned) /\ fresh' = FALSE
     \/ /\ ~rises.reset /\ ~rises.move /\ ~rises.clock
        /\ engine' = tuned /\ pending' = None
        /\ UNCHANGED <<kept, fresh>>

Sample ==
  /\ Produce
  /\ \E inputs \in Levels, modulation \in Modulations : Consume(inputs, modulation)
  /\ UNCHANGED <<write_base, changes>>
-----------------------------------------------------------------------------
(* set_parameter: refused when the candidate is not accepted; a loop whose *)
(* length changes starts to settle anew.                                   *)
SetParameter(name, value) ==
  LET candidate == [Parameters(engine, write_base) EXCEPT ![name] = value]
      applied   == Apply(engine, candidate, {name})
  IN
  /\ changes < MaxChanges /\ changes' = changes + 1
  /\ Accepted(candidate)
  /\ IF name = "write_probability"
     THEN write_base' = value /\ engine' = Reconciled(applied, value, write_modulation)
     ELSE write_base' = write_base /\ engine' = applied
  /\ kept' = IF LengthOf(engine') = LengthOf(engine) THEN kept ELSE 0
  /\ UNCHANGED <<write_modulation, previous, pending, ports, fresh>>

(* A restart asks for every parameter and spawns the module from them, with *)
(* whatever register its seed gives.                                        *)
Restart ==
  LET parameters == Parameters(engine, write_base) IN
  /\ Accepted(parameters)
  /\ \E register \in Seeded :
       engine' = Apply(NewEngine(register), parameters, DOMAIN parameters)
  /\ write_base' = parameters.write_probability /\ write_modulation' = 0
  /\ previous' = Low /\ pending' = None
  /\ ports' = [step |-> FALSE, last |-> None]
  /\ kept' = 0 /\ fresh' = TRUE /\ UNCHANGED changes

Next ==
  \/ Sample
  \/ \E name \in DOMAIN Values : \E value \in Values[name] : SetParameter(name, value)
  \/ Restart

Spec == Init /\ [][Next]_vars
-----------------------------------------------------------------------------
(* Properties. *)

(* The types of the state. *)
TypeOK ==
  /\ engine \in Engine
  /\ write_base \in 0 .. Full /\ write_modulation \in Modulations \cup {0}
  /\ previous \in Levels
  /\ kept \in 0 .. Width /\ fresh \in BOOLEAN /\ changes \in 0 .. MaxChanges

(* A full knob locks the loop (WriteKnob): as many places as it has been   *)
(* full for repeat the place a loop length further on, whatever resets,    *)
(* moves and settings lie between.                                         *)
LoopRepeats ==
  \A i \in Places :
    i < kept /\ i + LengthOf(engine) < Width =>
      engine.register[i] = engine.register[i + LengthOf(engine)]

(* The probability in force is the knob and the held modulation, also      *)
(* between samples, when a parameter was just set.                         *)
WriteIsEffective == engine.write = Clamped(write_base + write_modulation, 0, Full)

(* What waits to be published is the register's latest step, and what is   *)
(* published stays so until the next.                                      *)
OutputsFollow ==
  /\ pending # None => pending.register = engine.register
  /\ pending = None /\ ~fresh => ports.last.register = engine.register

(* Neither samples nor restarts change a parameter: what modulation does   *)
(* to the engine is never taken for a setting of the knob.                 *)
ConfigSurvives ==
  [][changes' = changes => Parameters(engine', write_base') = Parameters(engine, write_base)]_vars

=============================================================================
