----------------------------- MODULE Quantizer ------------------------------
(***************************************************************************)
(* From a byte of the register to a note of a scale and a velocity         *)
(* (quantizer.rs).  A scale is the set of its intervals, a range the pair  *)
(* of its bounds.                                                          *)
(***************************************************************************)
EXTENDS Integers, FiniteSetsExt

CONSTANTS
  Octave,    \* semitones of an octave
  MaxNote,   \* the highest MIDI note
  DacBits    \* bits of the DAC byte

ASSUME QuantizerAssumption ==
  Octave \in Nat \ {0} /\ MaxNote \in Nat \ {0} /\ DacBits \in Nat \ {0}

MaxDac == 2 ^ DacBits - 1
MidiNotes == 0 .. MaxNote
Intervals == 0 .. Octave - 1

InScale(n, scale, root) == n \in MidiNotes /\ (n - root) % Octave \in scale

(* Scale::quantize: outward from the note, at each distance below and then *)
(* above.                                                                  *)
AtDistance(n, d) == <<n - d, n + d>>
Snapped(raw, scale, root) ==
  LET Hits(d) == {i \in 1 .. 2 : InScale(AtDistance(raw, d)[i], scale, root)}
      near    == {d \in 1 .. MaxNote : Hits(d) # {}}
  IN  IF InScale(raw, scale, root) \/ near = {} THEN raw
      ELSE AtDistance(raw, Min(near))[Min(Hits(Min(near)))]

Clamped(n, lo, hi) == IF n < lo THEN lo ELSE IF n > hi THEN hi ELSE n

(* Linear in the byte, rounded; snapped; clamped; and never note zero.     *)
NoteFromDac(dac, scale, root, range) ==
  LET raw  == range[1] + (dac * (range[2] - range[1]) + MaxDac \div 2) \div MaxDac
      note == Clamped(Snapped(Clamped(raw, 0, MaxNote), scale, root), range[1], range[2])
  IN  IF note = 0 THEN 1 ELSE note

VelocityFromDac(dac) ==
  LET low == dac % 2 ^ (DacBits - 1) IN IF low = 0 THEN 1 ELSE low
=============================================================================
