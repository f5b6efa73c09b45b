------------------------------ MODULE MCDevices ------------------------------
(***************************************************************************)
(* A small instance of Devices: a minute of ten, so that pulses are two to *)
(* five samples apart and one tempo does not divide it, and a cycle of     *)
(* four steps.  Two of the tempi asked for are rounded.                    *)
(***************************************************************************)
EXTENDS Devices

MCDefaultConfig == [bpm |-> 2, ppqn |-> 1, pulse_width_ms |-> 1]
MCAsked ==
  [bpm |-> {3, 9}, ppqn |-> {1, 2}, pulse_width_ms |-> {1, 2}]
MCSine == [i \in 0 .. Cycle - 1 |-> <<0, 4, 0, -4>>[i + 1]]
MCDefaultLfo ==
  [waveform |-> "sine", frequency_hz |-> 1, phase_offset |-> 0, pulse_width |-> 2]
MCAskedLfo == [phase_offset |-> {0, 1, 4}]
MCUnlabelled == [t \in Targets |-> ""]
MCPatchFiles ==
  {[clock |-> [bpm |-> 3], lfo |-> [waveform |-> "saw_up", frequency_hz |-> 0],
    labels |-> [MCUnlabelled EXCEPT !["rack"] = "a", !["cable"] = "a"], connected |-> TRUE],
   [clock |-> [ppqn |-> 9], lfo |-> <<>>, labels |-> MCUnlabelled, connected |-> TRUE]}
=============================================================================
