------------------------------ MODULE MidiVoice ------------------------------
(***************************************************************************)
(* What a MIDI receiver does with a stream of channel messages: which      *)
(* notes of a channel sound after it.  The receiver is outside the         *)
(* repository; the messages are the ones MidiWire encodes.  The effect of  *)
(* a stream is defined by its last relevant message, without recursion, so *)
(* that the proof system can reason about it.                              *)
(***************************************************************************)
EXTENDS Naturals, Sequences

CONSTANTS
  Notes,     \* MIDI note numbers
  None       \* no note; also no sample index and no fault

ASSUME NoneIsNoNote == None \notin Notes

(* The kinds of MidiWire message midi_out sends.  A routed controller      *)
(* ("Control") is numbered 0..119, so it is never one of the two channel   *)
(* mode messages CC 123 and CC 120.                                        *)
Kinds == {"NoteOn", "NoteOff", "Control", "AllNotesOff", "AllSoundOff"}

NoteOff(c, n) ==
  [kind |-> "NoteOff", channel |-> c, note |-> n, value |-> 0]
NoteOn(c, n, v) ==
  [kind |-> "NoteOn", channel |-> c, note |-> n, value |-> v]
Control(c) ==
  [kind |-> "Control", channel |-> c, note |-> None, value |-> 0]
AllNotesOff(c) ==
  [kind |-> "AllNotesOff", channel |-> c, note |-> None, value |-> 0]
AllSoundOff(c) ==
  [kind |-> "AllSoundOff", channel |-> c, note |-> None, value |-> 0]

(* Message m makes note n of channel c sound. *)
Starts(m, c, n) ==
  /\ m.channel = c
  /\ m.kind = "NoteOn"
  /\ m.note = n
  /\ m.value > 0

(* Message m silences note n of channel c; a Note On with velocity zero is *)
(* a Note Off.                                                             *)
Ends(m, c, n) ==
  /\ m.channel = c
  /\ \/ m.kind \in {"AllNotesOff", "AllSoundOff"}
     \/ m.kind = "NoteOff" /\ m.note = n
     \/ m.kind = "NoteOn" /\ m.note = n /\ m.value = 0

(* The notes of channel c that sound after the events of s, when those in  *)
(* before sounded ahead of it.                                             *)
Sounding(before, c, s) ==
  {n \in Notes :
     \/ /\ n \in before
        /\ \A i \in 1 .. Len(s) : ~Ends(s[i].message, c, n)
     \/ \E i \in 1 .. Len(s) :
          /\ Starts(s[i].message, c, n)
          /\ \A j \in (i + 1) .. Len(s) : ~Ends(s[j].message, c, n)}
=============================================================================
