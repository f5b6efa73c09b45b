----------------------------- MODULE MidiCodec -----------------------------
(***************************************************************************)
(* The three forms of a MIDI message in oxurack: the bytes of a port, the  *)
(* compact wire form of the queues, and the structured form of the world.  *)
(* Data bytes have seven bits, as midir delivers them.                     *)
(***************************************************************************)
EXTENDS Integers, Sequences

Byte == 0 .. 127
VoiceKinds ==
  {"NoteOff", "NoteOn", "PolyKeyPressure", "ControlChange", "ProgramChange",
   "ChannelPressure", "PitchBend"}

(* The upper half of a status byte. *)
Nibble ==
  [kind \in VoiceKinds |->
     CASE kind = "NoteOff" -> 8 [] kind = "NoteOn" -> 9 [] kind = "PolyKeyPressure" -> 10
       [] kind = "ControlChange" -> 11 [] kind = "ProgramChange" -> 12
       [] kind = "ChannelPressure" -> 13 [] kind = "PitchBend" -> 14]
Short(kind) == kind \in {"ProgramChange", "ChannelPressure"}
KindOf(status) == CHOOSE kind \in VoiceKinds : Nibble[kind] = status \div 16

(* RawMidiEvent keeps three bytes. *)
FirstThree(bytes) == SubSeq(bytes, 1, IF Len(bytes) < 3 THEN Len(bytes) ELSE 3)

(* MidiWire::from_bytes: bytes that are missing are taken for zero. *)
FromBytes(bytes) ==
  LET kind == KindOf(bytes[1])
      byte(i) == IF i <= Len(bytes) THEN bytes[i] ELSE 0 IN
  [status |-> bytes[1], data1 |-> byte(2),
   data2 |-> IF Short(kind) THEN 0 ELSE byte(3),
   length |-> IF Short(kind) THEN 2 ELSE 3]

(* MidiWire::to_bytes, up to the length that is sent. *)
SentBytes(wire) ==
  IF wire.length = 2 THEN <<wire.status, wire.data1>>
                     ELSE <<wire.status, wire.data1, wire.data2>>

(* MidiWire::to_message: a Note On of velocity zero is a Note Off, and a   *)
(* pitch bend is one signed number.                                        *)
\* Mutant: the two halves of a pitch bend the other way round.
BendSwapped(data1, data2) == 128 * data1 + data2 - 8192
Bend(data1, data2) == 128 * data2 + data1 - 8192
ToMessage(wire) ==
  LET kind == KindOf(wire.status) IN
  [kind |-> IF kind = "NoteOn" /\ wire.data2 = 0 THEN "NoteOff" ELSE kind,
   channel |-> wire.status % 16,
   value |-> CASE kind = "PitchBend" -> <<Bend(wire.data1, wire.data2)>>
               [] Short(kind) -> <<wire.data1>>
               [] OTHER -> <<wire.data1, wire.data2>>]

(* MidiMessage::to_wire: data is masked to seven bits, a channel to four;  *)
(* a bend is biased in sixteen bits.                                       *)
Biased(bend) == (bend + 8192) % 65536
ToWire(message) ==
  LET bend == Biased(message.value[1])
      kind == message.kind IN
  [status |-> 16 * Nibble[kind] + (message.channel % 16),
   data1 |-> IF kind = "PitchBend" THEN bend % 128 ELSE message.value[1] % 128,
   data2 |-> CASE kind = "PitchBend" -> (bend \div 128) % 128
               [] Short(kind) -> 0
               [] OTHER -> message.value[2] % 128,
   length |-> IF Short(kind) THEN 2 ELSE 3]

(* classify_midi: the channel messages; what is not one is handled by the  *)
(* clocks or, a clock byte or an exclusive message for example, ignored.   *)
IsChannel(bytes) == bytes # <<>> /\ bytes[1] \in 128 .. 239
IsTransport(bytes) == bytes # <<>> /\ bytes[1] \in {242, 250, 251, 252}
(* What midir delivers: a channel message is complete, and its data bytes  *)
(* have seven bits.                                                        *)
WellFormed(bytes) ==
  IsChannel(bytes) =>
    /\ Len(bytes) = IF Short(KindOf(bytes[1])) THEN 2 ELSE 3
    /\ \A i \in 2 .. Len(bytes) : bytes[i] \in Byte
-----------------------------------------------------------------------------
(* What a receiver takes a channel message for: a Note On of velocity zero *)
(* ends its note, and so does a Note Off, however fast.                    *)
Meaning(bytes) ==
  LET kind == KindOf(bytes[1])
      ends == kind = "NoteOff" \/ (kind = "NoteOn" /\ bytes[3] = 0) IN
  <<IF ends THEN "NoteOff" ELSE kind, bytes[1] % 16>>
    \o (IF ends THEN <<bytes[2]>> ELSE Tail(bytes))
=============================================================================
