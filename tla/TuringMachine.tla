--------------------------- MODULE TuringMachine ----------------------------
(***************************************************************************)
(* The engine (engine.rs and the parts it wires together): a shift         *)
(* register that feeds its oldest bit of the loop back, a write knob that  *)
(* may replace it, a length selector, two quantizers, two clock dividers.  *)
(* An engine is a record; an operation is an operator from one engine to   *)
(* the next.  Random bits are parameters.                                  *)
(***************************************************************************)
EXTENDS Quantizer, Sequences

CONSTANTS
  Width,     \* bits of the register
  Lengths,   \* VALID_LENGTHS by position
  Full,      \* the write probability that always keeps: a bound on its steps
  MidRange   \* the note range of a new quantizer

ASSUME EngineAssumption ==
  /\ Width \in Nat /\ Full \in Nat \ {0} /\ DacBits <= Width
  /\ Lengths \in Seq(2 .. Width) /\ Len(Lengths) > 0
  /\ \A i, j \in 1 .. Len(Lengths) : i < j => Lengths[i] < Lengths[j]
  /\ MidRange \in MidiNotes \X MidiNotes /\ MidRange[1] <= MidRange[2]

Bits == 0 .. 1
Places == 0 .. Width - 1
Registers == [Places -> Bits]
Positions == 1 .. Len(Lengths)
Chromatic == Intervals
ValidLengths == {Lengths[i] : i \in Positions}
PitchSets == (SUBSET Intervals) \ {{}}
Ranges == {r \in MidiNotes \X MidiNotes : r[1] <= r[2]}

Engine ==
  [register : Registers, write : 0 .. Full, position : Positions,
   scale : PitchSets, root : Intervals, range : Ranges,
   out_scale : PitchSets, out_root : Intervals,
   div2 : 0 .. 1, div4 : 0 .. 3, step_count : 0 .. 3]

(* TuringMachine::with_seed: the register is whatever the seed gives.      *)
NewEngine(register) ==
  [register |-> register, write |-> Full \div 2, position |-> Len(Lengths),
   scale |-> Chromatic, root |-> 0, range |-> MidRange,
   out_scale |-> Chromatic, out_root |-> 0,
   div2 |-> 0, div4 |-> 0, step_count |-> 0]

LengthOf(e) == Lengths[e.position]

(* LengthSelector::set_length: the nearest valid length, the smaller of two. *)
NearestPosition(len) ==
  LET Distance(i) == IF Lengths[i] > len THEN Lengths[i] - len ELSE len - Lengths[i]
  IN  CHOOSE i \in Positions : \A j \in Positions :
        Distance(i) < Distance(j) \/ (Distance(i) = Distance(j) /\ i <= j)
-----------------------------------------------------------------------------
(* The register. *)

\* Mutant: the bit behind the loop window is fed back.
FeedbackBehind(register, len) == register[len % Width]
Feedback(register, len) == register[len - 1]

Clocked(register, bit) == [i \in Places |-> IF i = 0 THEN bit ELSE register[i - 1]]

(* The bits the write knob may let in: at full probability the roll is     *)
(* always below it.                                                        *)
Resolved(write, feedback) == IF write = Full THEN {feedback} ELSE Bits

(* The byte the converter sees: the top of the loop window, or the bottom  *)
(* of the register when the window is shorter.                             *)
DacByte(register, len) ==
  LET shift == IF len > DacBits THEN len - DacBits ELSE 0
  IN  MapThenSumSet(LAMBDA i : register[shift + i] * 2 ^ i, 0 .. DacBits - 1)

PulseBit(dac) == dac \div 2 ^ (DacBits - 1)
-----------------------------------------------------------------------------
(* Steps. *)

(* StepOutputs: gates and pulses are bits of the register, which stands    *)
(* for them; noise and the write level are left out.                       *)
Outputs(e, div2, div4) ==
  LET dac == DacByte(e.register, LengthOf(e)) IN
  [note |-> NoteFromDac(dac, e.scale, e.root, e.range),
   velocity |-> VelocityFromDac(dac),
   gate |-> PulseBit(dac) = 1,
   scale_note |-> NoteFromDac(dac, e.out_scale, e.out_root, MidRange),
   div2 |-> div2, div4 |-> div4,
   register |-> e.register, length |-> LengthOf(e)]

Stepped(e, bit) == [e EXCEPT !.register = Clocked(e.register, bit)]

(* TuringMachine::tick; step_count is kept by its remainder.               *)
Ticked(e, bit) ==
  [Stepped(e, bit) EXCEPT !.div2 = (e.div2 + 1) % 2, !.div4 = (e.div4 + 1) % 4,
                          !.step_count = (e.step_count + 1) % 4]
TickOutputs(e, bit) ==
  Outputs(Stepped(e, bit), e.div2 + 1 = 2, e.div4 + 1 = 4)

(* TuringMachine::move_step: the clock does not progress. *)
Moved(e, bit) == Stepped(e, bit)
MoveOutputs(e, bit) == Outputs(Stepped(e, bit), FALSE, FALSE)

(* The bits that a step may let in. *)
NextBits(e) == Resolved(e.write, Feedback(e.register, LengthOf(e)))

(* TuringMachine::reset: settings stay. *)
Reset(e) ==
  [e EXCEPT !.register = [i \in Places |-> 0], !.div2 = 0, !.div4 = 0, !.step_count = 0]
=============================================================================
