------------------------------- MODULE Devices -------------------------------
(***************************************************************************)
(* A rack with a Clock and an LFO: the pulse port of the one may be patched *)
(* to the sync input of the other, while parameters and labels change and  *)
(* restarts and loads come between samples.  A listener builds its picture *)
(* of parameters and labels from the change messages alone.                *)
(***************************************************************************)
EXTENDS ClockModule, LfoModule

CONSTANTS
  AskedLfo,      \* the values asked of each parameter of the LFO: a bound
  Voltages,      \* what another module delivers to freq_in
  Texts,         \* display names, besides the empty one
  PatchFiles     \* [clock, lfo, labels, connected]: the parameters it names, labels

NoLabel == "none"
Targets == {"rack", "cable"}

DevicesAssumption ==
  /\ NoLabel \notin Texts
  /\ \A patch \in PatchFiles : patch.connected \in BOOLEAN
ASSUME DevicesAssumption

VARIABLES
  connected,     \* is there a cable from pulse to sync_in?
  sync_in, freq_in,   \* the values of the input ports
  labels,        \* RackMeta and the DisplayName components
  told_clock, told_lfo, told_labels,   \* what the listener has heard
  streak,        \* history: samples since the cable was connected, up to two
  struck         \* history: the last sample began a pulse that can be seen

portVars == <<connected, sync_in, freq_in, streak, struck>>
noteVars == <<labels, told_clock, told_lfo, told_labels>>
vars == <<clockVars, lfoVars, portVars, noteVars>>

Unlabelled == [t \in Targets |-> IF t = "rack" THEN "" ELSE NoLabel]
(* An empty name and no name read alike. *)
Text(label) == IF label = NoLabel THEN "" ELSE label
Read(ls) == [t \in Targets |-> Text(ls[t])]

Init ==
  /\ ClockInit /\ LfoInit
  /\ connected = FALSE
  /\ sync_in = FALSE /\ freq_in = 0
  /\ streak = 0 /\ struck = FALSE
  /\ labels = Unlabelled
  /\ told_clock = AsGiven(DefaultConfig) /\ told_lfo = DefaultLfo
  /\ told_labels = Read(Unlabelled)
-----------------------------------------------------------------------------
(* One sample: Produce, Propagate, MergeInputs, Consume.  An input that    *)
(* nothing feeds holds its value.                                          *)

Delivered == IF connected THEN pulse' ELSE sync_in

Sample ==
  /\ ClockSample
  /\ ProduceLfo
  /\ sync_in' = Delivered
  /\ freq_in' \in Voltages
  /\ ConsumeLfo(freq_in', sync_in')
  /\ streak' = IF connected /\ streak < 2 THEN streak + 1 ELSE streak
  /\ struck' = (rose' /\ connected /\ streak > 0)
  /\ UNCHANGED <<connected, noteVars>>
-----------------------------------------------------------------------------
(* set_module_parameter: the setter validates, then one message is sent,   *)
(* with the value that was asked for and not the one that is stored.       *)
SetClockParameter ==
  /\ \E p \in DOMAIN Asked : \E value \in Asked[p] :
       /\ SetParameter(p, value)
       /\ told_clock' = [told_clock EXCEPT ![p] = value]
  /\ UNCHANGED <<lfoVars, portVars, labels, told_lfo, told_labels>>

SetLfoParameter ==
  /\ \E p \in DOMAIN AskedLfo : \E value \in AskedLfo[p] :
       SetLfo(p, value) /\ told_lfo' = [told_lfo EXCEPT ![p] = value]
  /\ UNCHANGED <<clockVars, portVars, labels, told_clock, told_labels>>

(* set_label_value: an empty name removes the component of an entity; the  *)
(* rack keeps it.  The message says what was asked.                        *)
Exists(t) == t = "cable" => connected
Stored(t, text) == IF text = "" /\ t # "rack" THEN NoLabel ELSE text
SetLabel ==
  /\ \E t \in Targets, text \in Texts \cup {""} :
       /\ Exists(t)
       /\ labels' = [labels EXCEPT ![t] = Stored(t, text)]
       /\ told_labels' = [told_labels EXCEPT ![t] = text]
  /\ UNCHANGED <<clockVars, lfoVars, portVars, told_clock, told_lfo>>

(* The cable goes with its label and comes without one.                    *)
Stripped(ls) == [ls EXCEPT !["cable"] = NoLabel]
Repatch ==
  /\ connected' = ~connected
  /\ streak' = 0
  /\ labels' = Stripped(labels)
  /\ told_labels' = [told_labels EXCEPT !["cable"] = ""]
  /\ UNCHANGED <<clockVars, lfoVars, sync_in, freq_in, struck, told_clock, told_lfo>>
-----------------------------------------------------------------------------
(* Load and restart, in a fresh App.  Modules spawn with their defaults    *)
(* for what the file leaves out, validated together.                       *)
Completed(defaults, given) ==
  [p \in DOMAIN defaults |-> IF p \in DOMAIN given THEN given[p] ELSE defaults[p]]

(* apply_patch_to_world announces the parameters the file names, as they   *)
(* stand there, and the labels that are not empty; the listener starts     *)
(* from the schema.                                                        *)
\* Mutant: parameters are announced only when they are set one by one.
HeardOnlySet(schema, given) == schema
Heard(schema, given) ==
  [p \in DOMAIN schema |-> IF p \in DOMAIN given THEN given[p] ELSE schema[p]]
\* Mutant: the label of the rack is left to its resource.
AnnouncedWithoutRack(ls) == [t \in Targets |-> IF t = "rack" THEN "" ELSE Text(ls[t])]
Announced(ls) == [t \in Targets |-> Text(ls[t])]

Apply(patch) ==
  LET raw == Completed(AsGiven(DefaultConfig), patch.clock)
      raw_lfo == Completed(DefaultLfo, patch.lfo) IN
  /\ Accepted(raw) /\ raw_lfo \in LfoConfigs
  /\ FreshClock(Canonical(raw)) /\ FreshLfo(raw_lfo)
  /\ connected' = patch.connected
  /\ sync_in' = FALSE /\ freq_in' = 0
  /\ streak' = 0 /\ struck' = FALSE
  /\ labels' = [t \in Targets |-> Stored(t, Text(patch.labels[t]))]
  /\ told_clock' = Heard(AsGiven(DefaultConfig), patch.clock)
  /\ told_lfo' = Heard(DefaultLfo, patch.lfo)
  /\ told_labels' = Announced(patch.labels)

(* snapshot_patch: every parameter by its getter; runtime phase is not     *)
(* captured.                                                               *)
Snapshot ==
  [clock |-> AsGiven(config), lfo |-> lfo_config, labels |-> labels, connected |-> connected]

Load == \E patch \in PatchFiles : Apply(patch)
Restart == Apply(Snapshot)

Next ==
  \/ Sample \/ SetClockParameter \/ SetLfoParameter \/ SetLabel \/ Repatch
  \/ Load \/ Restart

Spec == Init /\ [][Next]_vars
-----------------------------------------------------------------------------
(* Properties. *)

(* A pulse of the Clock restarts the cycle of an LFO patched to it, one    *)
(* sample later and at every one of them, whatever was set in between.     *)
SyncAligns ==
  [][Sample /\ struck => bipolar_out' = Shape(lfo_config, lfo_config.phase_offset)]_vars

(* A listener that only hears the messages knows every label and every     *)
(* parameter, but for the rounding of the Clock, which the messages do not *)
(* show: all that was asked for, each value at a time of its own, rounds   *)
(* to what the Clock holds, however often the others were read back and    *)
(* rounded again when one of them was set, saved or loaded.                *)
NoticesTell ==
  /\ Canonical(told_clock) = config /\ told_lfo = lfo_config
  /\ told_labels = Read(labels)

(* "New value that was written."                                           *)
NoticesAreExact == told_clock = AsGiven(config)

=============================================================================
