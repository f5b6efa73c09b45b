------------------------------ MODULE MCTuring ------------------------------
(***************************************************************************)
(* An engine with one of its two hosts: the rack, or a MIDI port of its    *)
(* own.  The variables of the other host rest.                             *)
(***************************************************************************)
EXTENDS TuringModule

CONSTANTS Hosts, Channels
VARIABLES host, midi_engine, channel, last_note, sounding, forgotten, reply

M == INSTANCE MidiTuring WITH engine <- midi_engine
midi == <<midi_engine, channel, last_note, sounding, forgotten, reply>>
rack == <<engine, write_base, write_modulation, previous, pending, ports, kept, fresh, changes>>
allVars == <<host, midi, rack>>

Plain == NewEngine(CHOOSE register \in Seeded : TRUE)
HostInit ==
  /\ host \in Hosts /\ Init /\ M!MidiInit(Seeded)
  /\ host = "rack" => midi_engine = Plain /\ channel = CHOOSE c \in Channels : TRUE
  /\ host = "midi" => engine = Plain
HostNext ==
  /\ UNCHANGED host
  /\ \/ host = "rack" /\ Next /\ UNCHANGED midi
     \/ host = "midi" /\ M!MidiNext /\ UNCHANGED rack
HostSpec == HostInit /\ [][HostNext]_allVars

OneVoice == M!OneVoice
AllNotesOffSilences == M!AllNotesOffSilences
-----------------------------------------------------------------------------
LoopLengths == <<2, 4>>
Turns == {0, 1}
Registered == {[i \in 0 .. 3 |-> i % 2]}
Middle == <<2, 4>>
Offered ==
  [write_probability |-> {1}, length |-> {2}, length_position |-> {1},
   scale |-> {<<{0, 2}, 1>>}, root |-> {3}, note_min |-> {7},
   scale_output_scale |-> {<<{1}, 2>>}]
=============================================================================
