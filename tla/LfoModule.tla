------------------------------ MODULE LfoModule ------------------------------
(***************************************************************************)
(* The LFO module of the rack.  A cycle has Cycle steps, and the outputs   *)
(* are scaled to them; the floating-point error of a step is left out.     *)
(***************************************************************************)
EXTENDS Integers

CONSTANTS
  Cycle,         \* steps of a cycle
  MaxFrequency,  \* 100 Hz, in steps a sample
  NonFinite,     \* a control voltage that is no number
  Sine,          \* the sine of every step
  DefaultLfo     \* LfoConfig::default

Waveforms == {"sine", "tri", "saw_up", "saw_down", "square"}

(* LfoConfig::try_new *)
LfoConfigs ==
  [waveform : Waveforms, frequency_hz : 0 .. MaxFrequency,
   phase_offset : 0 .. Cycle - 1, pulse_width : 1 .. Cycle - 1]

LfoAssumption ==
  /\ Cycle \in Nat \ {0} /\ Cycle % 2 = 0
  /\ MaxFrequency \in Nat /\ NonFinite \in Int
  /\ Sine \in [0 .. Cycle - 1 -> -Cycle .. Cycle]
  /\ DefaultLfo \in LfoConfigs
ASSUME LfoAssumption

VARIABLES
  lfo_config,     \* Lfo::config
  lfo_phase,      \* Lfo::phase
  previous_sync,  \* Lfo::previous_sync
  frequency_cv,   \* LfoState::frequency_cv
  sync,           \* LfoState::sync
  bipolar_out     \* the value of the port; that of out is half of it, raised

lfoVars == <<lfo_config, lfo_phase, previous_sync, frequency_cv, sync, bipolar_out>>

(* Lfo::new and LfoState, with the port at its default. *)
FreshLfo(c) ==
  /\ lfo_config' = c
  /\ lfo_phase' = 0 /\ previous_sync' = FALSE
  /\ frequency_cv' = 0 /\ sync' = FALSE
  /\ bipolar_out' = 0

LfoInit ==
  /\ lfo_config = DefaultLfo
  /\ lfo_phase = 0 /\ previous_sync = FALSE
  /\ frequency_cv = 0 /\ sync = FALSE
  /\ bipolar_out = 0

(* The shapes, from one low to one high. *)
Distance(a, b) == IF a >= b THEN a - b ELSE b - a
Shape(c, step) ==
  CASE c.waveform = "sine" -> Sine[step]
    [] c.waveform = "tri" -> Cycle - 4 * Distance(step, Cycle \div 2)
    [] c.waveform = "saw_up" -> 2 * step - Cycle
    [] c.waveform = "saw_down" -> Cycle - 2 * step
    [] c.waveform = "square" -> IF step < c.pulse_width THEN Cycle ELSE 0 - Cycle

(* A control voltage of one adds all of 100 Hz.                            *)
Clamped(cv) ==
  IF cv = NonFinite \/ cv < 0 THEN 0 ELSE IF cv > MaxFrequency THEN MaxFrequency ELSE cv
Frequency ==
  LET asked == lfo_config.frequency_hz + Clamped(frequency_cv)
  IN  IF asked > MaxFrequency THEN MaxFrequency ELSE asked

\* Mutant: the edge takes effect after the sample.
StartUnsynced == lfo_phase
Start == IF sync /\ ~previous_sync THEN 0 ELSE lfo_phase

(* Lfo::next_sample and produce_lfo_outputs. *)
ProduceLfo ==
  /\ bipolar_out' = Shape(lfo_config, (Start + lfo_config.phase_offset) % Cycle)
  /\ lfo_phase' = (Start + Frequency) % Cycle
  /\ previous_sync' = sync
  /\ UNCHANGED lfo_config

(* consume_lfo_inputs: what came is for the next sample. *)
ConsumeLfo(freq_in, sync_in) == frequency_cv' = freq_in /\ sync' = sync_in

(* set_parameter: phase and sync history stay. *)
SetLfo(p, value) ==
  LET raw == [lfo_config EXCEPT ![p] = value] IN
  /\ raw \in LfoConfigs
  /\ lfo_config' = raw
  /\ UNCHANGED <<lfo_phase, previous_sync, frequency_cv, sync, bipolar_out>>
=============================================================================
