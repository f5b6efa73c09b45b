----------------------------- MODULE MidiTuring -----------------------------
(***************************************************************************)
(* The Turing machine behind a MIDI port of its own (midi_io.rs).  Every   *)
(* send may fail, and the call that made it then ends where it is.         *)
(***************************************************************************)
EXTENDS TuringMachine

CONSTANT Channels   \* channels the host may choose: a bound

VARIABLES
  engine,      \* MidiTuringMachine::engine
  channel,     \* MidiTuringMachine::channel
  last_note,   \* MidiTuringMachine::last_note, Unset for None
  sounding,    \* the voices that sound at the receiver: <<channel, note>>
  forgotten,   \* history: voices left sounding by an all_notes_off that failed,
               \* or on a channel that was left
  reply        \* how the last call ended

midiVars == <<engine, channel, last_note, sounding, forgotten, reply>>

Unset == -1
Voice == <<channel, last_note>>
Held == IF last_note = Unset THEN {} ELSE {Voice}
-----------------------------------------------------------------------------
(* What is tracked after a Note Off that failed. *)
\* Mutant: the tracker is emptied before the message is sent.
AfterFailedOffTaken == Unset
AfterFailedOff == last_note

(* Note On, when the gate is high; the tracker follows what was sent.      *)
Strike(outputs) ==
  \/ /\ outputs.gate
     /\ last_note' = outputs.note /\ reply' = "ok"
     /\ sounding' = (sounding \ Held) \cup {<<channel, outputs.note>>}
  \/ /\ outputs.gate
     /\ last_note' = last_note /\ reply' = "failed" /\ sounding' = sounding \ Held
  \/ /\ ~outputs.gate
     /\ last_note' = Unset /\ reply' = "ok" /\ sounding' = sounding \ Held

(* tick: the engine has moved on whatever is sent.  Controllers come last  *)
(* and change nothing here, sent or not.                                   *)
TickMidi ==
  /\ \E bit \in NextBits(engine) :
       /\ engine' = Ticked(engine, bit)
       /\ \/ Strike(TickOutputs(engine, bit))
          \/ /\ last_note # Unset
             /\ last_note' = AfterFailedOff /\ reply' = "failed" /\ UNCHANGED sounding
  /\ forgotten' = forgotten \cap sounding' /\ UNCHANGED channel

(* all_notes_off: the tracker is emptied, and then the message is sent.    *)
AllNotesOff ==
  /\ last_note' = Unset
  /\ \/ reply' = "silenced" /\ sounding' = sounding \ Held /\ forgotten' = forgotten \ Held
     \/ /\ last_note # Unset
        /\ reply' = "failed" /\ UNCHANGED sounding
        /\ forgotten' = forgotten \cup (Held \cap sounding)
  /\ UNCHANGED <<engine, channel>>

(* set_channel leaves the sounding note to the old channel. *)
SetChannel(c) ==
  /\ c # channel /\ channel' = c /\ reply' = "ok"
  /\ forgotten' = forgotten \cup (Held \cap sounding)
  /\ UNCHANGED <<engine, last_note, sounding>>

(* engine_mut: the host turns knobs, moves a step or resets between ticks; *)
(* the settings left out only change which notes are played, but for a     *)
(* note range turned round, with which the next tick panics.               *)
EngineMut ==
  /\ \/ \E len \in 0 .. Width : engine' = [engine EXCEPT !.position = NearestPosition(len)]
     \/ \E write \in 0 .. Full : engine' = [engine EXCEPT !.write = write]
     \/ \E bit \in NextBits(engine) : engine' = Moved(engine, bit)
     \/ engine' = Reset(engine)
  /\ reply' = "ok" /\ UNCHANGED <<channel, last_note, sounding, forgotten>>

MidiInit(registers) ==
  /\ \E register \in registers : engine = NewEngine(register)
  /\ channel \in Channels
  /\ last_note = Unset /\ sounding = {} /\ forgotten = {} /\ reply = "ok"

MidiNext == TickMidi \/ AllNotesOff \/ (\E c \in Channels : SetChannel(c)) \/ EngineMut
-----------------------------------------------------------------------------
(* Properties. *)

(* One voice at a time, and it is the tracked one: a tick whose send fails *)
(* leaves nothing sounding that a later tick will not end.  Set aside are  *)
(* the voices that a failed all_notes_off gave up, and those that sounded  *)
(* on a channel when another was set.                                      *)
OneVoice == sounding \ forgotten \subseteq Held

(* all_notes_off "sends a Note Off for the currently sounding note": once  *)
(* it has succeeded nothing sounds.                                        *)
AllNotesOffSilences == reply = "silenced" => sounding = {}
=============================================================================
